---------------------------- MODULE Spec2Model ----------------------------
(***************************************************************************)
(* A model of the astrometric core of RMS (RMS/Astrometry/ApplyAstrometry) *)
(*                                                                         *)
(* Numbers.  The program computes in IEEE doubles; the model computes in   *)
(* fixed point.  An angle is a whole number of 1/Deg degrees, a pixel      *)
(* coordinate that the program takes is a whole number of pixels, one that *)
(* it returns a whole number of 1/Deg pixels, and a sine, cosine or any    *)
(* other dimensionless real v is the integer v*TrigScale rounded to        *)
(* nearest.  A product of two such reals is rounded to nearest after every *)
(* multiplication (Mul), as a float product is.  The position angle alone  *)
(* is kept finer, in 1/(Deg*Fine) degree, so that the rounding of a sum of *)
(* a small and a large double has its counterpart (FloatMod).  What the    *)
(* model does not have: signed zeros, NaN and infinities.                  *)
(***************************************************************************)
EXTENDS Integers, Sequences, FiniteSets, TLC

-----------------------------------------------------------------------------
(* Arithmetic helpers                                                      *)

Abs(v) == IF v < 0 THEN -v ELSE v

Sign(v) == IF v < 0 THEN -1 ELSE IF v > 0 THEN 1 ELSE 0

Min(a, b) == IF a <= b THEN a ELSE b

Max(a, b) == IF a >= b THEN a ELSE b

\* n/d rounded to the nearest integer, halves away from zero (d > 0).
RDiv(n, d) == IF n >= 0 THEN (2*n + d) \div (2*d) ELSE -((2*(-n) + d) \div (2*d))

\* Python's and numpy's % on a positive modulus: the result has the sign of
\* the modulus, so it lies in [0, m).
PyMod(v, m) == v % m

\* The unit of a fixed-point real: the float 1.0 is TrigScale.
TrigScale == 10000

\* The unit of an angle: one degree is Deg, so an angle has two decimals.
Deg == 100

Quarter == 90 * Deg

HalfTurn == 180 * Deg

Turn == 360 * Deg

\* The spacing of the doubles grows with their magnitude: a position angle
\* next to 0 is a double far finer than the doubles next to 90 or 360.  The
\* model keeps one finer level: pos_angle_ref and the minimizer's points are
\* whole numbers of 1/(Deg*Fine) degree.
Fine == 4

FineTurn == Fine * Turn

\* A position angle read at half its size: a full turn added to it turns the
\* field by half a turn.
PosAngleHalved(pos_angle_ref) == RDiv(pos_angle_ref, 2*Fine)

\* A position angle as it enters a sum with an angle of tens of degrees
\* (lines 500, 835): the sum is rounded to the angles' grid.
PosAngle(pos_angle_ref) == RDiv(pos_angle_ref, Fine)

\* A sum of position angles rounded as a double is: below one unit of the
\* angles' grid the fine level is kept, above it the grid.
FloatRound(v) == IF Abs(v) < Fine THEN v ELSE Fine * RDiv(v, Fine)

\* x % m of Python and numpy for doubles and m > 0: fmod(x, m), which is
\* exact, and for a negative x with a remainder the sum fmod(x, m) + m, which
\* is rounded.
FloatMod(x, m) ==
    IF x >= 0 THEN x % m
    ELSE IF (-x) % m = 0 THEN 0
    ELSE FloatRound(m - ((-x) % m))

\* The product of two fixed-point reals, rounded to nearest.
Mul(a, b) == RDiv(a*b, TrigScale)

\* The quotient of two fixed-point reals, rounded to nearest (b # 0).
Div(a, b) == IF b > 0 THEN RDiv(a*TrigScale, b) ELSE -RDiv(a*TrigScale, -b)

\* The float cosine of +-90 degrees is a tiny non-zero number (6.1e-17), so
\* the program's divisions by cos(...) never divide by zero: a zero divisor
\* of the model stands for the smallest positive fixed-point real.
NZ(v) == IF v = 0 THEN 1 ELSE v

\* floor(sqrt(n)) for n >= 0, by bisection on [lo, hi].
RECURSIVE ISqrtIn(_, _, _)
ISqrtIn(n, lo, hi) ==
    IF lo >= hi THEN lo
    ELSE LET mid == (lo + hi + 1) \div 2
         IN  IF mid*mid <= n THEN ISqrtIn(n, mid, hi) ELSE ISqrtIn(n, lo, mid - 1)

\* f = floor(sqrt(n)) or f + 1, whichever is nearer to sqrt(n).
ISqrtNearest(n, f) == IF n - f*f > f THEN f + 1 ELSE f

\* sqrt(n) rounded to the nearest integer, n in 0 .. 10^9.
ISqrt(n) == ISqrtNearest(n, ISqrtIn(n, 0, 31622))

\* math.sqrt / np.sqrt of a fixed-point real v >= 0 (v <= 20*TrigScale).
SqrtFx(v) == ISqrt(v*TrigScale)

-----------------------------------------------------------------------------
(* math.sin, math.cos, math.atan2, math.asin, math.acos on angles          *)

\* sin(d degrees)*TrigScale for d = 0 .. 90 (index d + 1).
SinTable ==
    <<     0,   175,   349,   523,   698,   872,  1045,  1219,  1392,  1564,
        1736,  1908,  2079,  2250,  2419,  2588,  2756,  2924,  3090,  3256,
        3420,  3584,  3746,  3907,  4067,  4226,  4384,  4540,  4695,  4848,
        5000,  5150,  5299,  5446,  5592,  5736,  5878,  6018,  6157,  6293,
        6428,  6561,  6691,  6820,  6947,  7071,  7193,  7314,  7431,  7547,
        7660,  7771,  7880,  7986,  8090,  8192,  8290,  8387,  8480,  8572,
        8660,  8746,  8829,  8910,  8988,  9063,  9135,  9205,  9272,  9336,
        9397,  9455,  9511,  9563,  9613,  9659,  9703,  9744,  9781,  9816,
        9848,  9877,  9903,  9925,  9945,  9962,  9976,  9986,  9994,  9998,
       10000 >>

\* The sine of an angle a in the first quadrant, 0 <= a <= Quarter: the
\* table at whole degrees, and between them the straight line.
SinFirst(a) ==
    IF a % Deg = 0 THEN SinTable[a \div Deg + 1]
    ELSE SinTable[a \div Deg + 1]
         + RDiv((SinTable[a \div Deg + 2] - SinTable[a \div Deg + 1]) * (a % Deg), Deg)

\* math.sin(math.radians(d)) for any angle d.
Sin(d) ==
    LET a == d % Turn
    IN  IF a <= Quarter THEN SinFirst(a)
        ELSE IF a <= HalfTurn THEN SinFirst(HalfTurn - a)
        ELSE IF a <= 3 * Quarter THEN -SinFirst(a - HalfTurn)
        ELSE -SinFirst(Turn - a)

\* math.cos(math.radians(d)).
Cos(d) == Sin(d + Quarter)

\* ay*cos(k) - ax*sin(k) at k whole degrees: positive while k degrees is
\* below the direction of (ax, ay).
AtanCross(ay, ax, k) == ay*SinTable[90 - k + 1] - ax*SinTable[k + 1]

\* The largest whole number of degrees k in lo .. hi with AtanCross >= 0
\* (ax, ay >= 0, and it holds at lo).
RECURSIVE AtanIn(_, _, _, _)
AtanIn(ay, ax, lo, hi) ==
    IF lo >= hi THEN lo
    ELSE IF AtanCross(ay, ax, (lo + hi + 1) \div 2) >= 0
         THEN AtanIn(ay, ax, (lo + hi + 1) \div 2, hi)
         ELSE AtanIn(ay, ax, lo, (lo + hi + 1) \div 2 - 1)

\* The zero of the straight line through g0 >= 0 at k degrees and g1 < 0 at
\* k + 1 degrees; sh keeps the products small.
AtanLine(k, g0, g1, sh) == k*Deg + RDiv(Deg*(g0 \div sh), NZ((g0 - g1) \div sh))

\* The angle of (ax, ay) between k and k + 1 degrees.
AtanNearest(ay, ax, k) ==
    IF k = 90 THEN Quarter
    ELSE AtanLine(k, AtanCross(ay, ax, k), AtanCross(ay, ax, k + 1),
                  Max(AtanCross(ay, ax, k),
                      AtanCross(ay, ax, k) - AtanCross(ay, ax, k + 1)) \div 1000000 + 1)

\* The first-quadrant angle of (ax, ay), ax, ay >= 0.
AtanFirst(ay, ax) ==
    IF ax = 0 /\ ay = 0 THEN 0 ELSE AtanNearest(ay, ax, AtanIn(ay, ax, 0, 90))

\* The divisor that brings |x| and |y| below 100000 before they are
\* multiplied by a sine (only their ratio matters).
AtanShrink(y, x) == (Max(Abs(x), Abs(y)) \div 100000) + 1

\* The angle of (x, y) from its first-quadrant angle a.
Atan2Quadrant(y, x, a) ==
    IF x = 0 /\ y = 0 THEN 0
    ELSE IF x >= 0 THEN (IF y >= 0 THEN a ELSE -a)
    ELSE (IF y >= 0 THEN HalfTurn - a ELSE a - HalfTurn)

\* math.degrees(math.atan2(y, x)): an angle in [-HalfTurn, HalfTurn].  As in
\* C's atan2, atan2(0, 0) = 0 and atan2(0, x) = 180 degrees for x < 0 (of a
\* zero y the model has only the positive one).
Atan2Deg(y, x) ==
    Atan2Quadrant(y, x, AtanFirst(Abs(y) \div AtanShrink(y, x), Abs(x) \div AtanShrink(y, x)))

\* The largest whole number of degrees k in lo .. hi with sin(k) <= m.
RECURSIVE AsinIn(_, _, _)
AsinIn(m, lo, hi) ==
    IF lo >= hi THEN lo
    ELSE IF SinTable[(lo + hi + 1) \div 2 + 1] <= m
         THEN AsinIn(m, (lo + hi + 1) \div 2, hi)
         ELSE AsinIn(m, lo, (lo + hi + 1) \div 2 - 1)

\* The angle between k and k + 1 degrees whose sine is m.
AsinNearest(m, k) ==
    IF k = 90 THEN Quarter
    ELSE k*Deg + RDiv(Deg*(m - SinTable[k + 1]), SinTable[k + 2] - SinTable[k + 1])

\* math.asin: ValueError outside [-1, 1].
AsinOk(s) == -TrigScale <= s /\ s <= TrigScale

\* np.degrees(np.arcsin(s)) for -TrigScale <= s <= TrigScale: an angle in
\* [-Quarter, Quarter].
AsinDeg(s) == Sign(s) * AsinNearest(Abs(s), AsinIn(Abs(s), 0, 90))

\* math.degrees(math.acos(c)) for -TrigScale <= c <= TrigScale.
AcosDeg(c) == Quarter - AsinDeg(c)

-----------------------------------------------------------------------------
(* The distortion model: applyFieldCorrection                              *)

\* The 12-term forward polynomial of the X axis at the centred point
\* (Xdet, Ydet); c is x_poly_fwd (c[1] is the program's x_poly_fwd[0]).
PolyFwdX(c, Xdet, Ydet) ==
    c[1] + c[2]*Xdet + c[3]*Ydet + c[4]*Xdet*Xdet + c[5]*Xdet*Ydet
    + c[6]*Ydet*Ydet + c[7]*Xdet*Xdet*Xdet + c[8]*Xdet*Xdet*Ydet
    + c[9]*Xdet*Ydet*Ydet + c[10]*Ydet*Ydet*Ydet
    + (c[11]*Xdet + c[12]*Ydet)*ISqrt(Xdet*Xdet + Ydet*Ydet)

\* The radial terms of the Y polynomial in the order of the X polynomial.
PolyFwdYAsX(c, Xdet, Ydet) == PolyFwdX(c, Xdet, Ydet)

\* The 12-term forward polynomial of the Y axis; c is y_poly_fwd.  Its two
\* radial terms are Ydet*r for index 10 and Xdet*r for index 11.
PolyFwdY(c, Xdet, Ydet) ==
    c[1] + c[2]*Xdet + c[3]*Ydet + c[4]*Xdet*Xdet + c[5]*Xdet*Ydet
    + c[6]*Ydet*Ydet + c[7]*Xdet*Xdet*Xdet + c[8]*Xdet*Xdet*Ydet
    + c[9]*Xdet*Ydet*Ydet + c[10]*Ydet*Ydet*Ydet
    + (c[11]*Ydet + c[12]*Xdet)*ISqrt(Xdet*Xdet + Ydet*Ydet)

\* One point of applyFieldCorrection: the rectified coordinates, which are
\* angles (pixels divided by F_scale px/deg).
applyFieldCorrectionPoint(x_poly_fwd, y_poly_fwd, X_res, Y_res, F_scale, X, Y) ==
    LET Xdet == X - X_res \div 2
        Ydet == Y - Y_res \div 2
    IN  [X |-> RDiv(Deg*(Xdet + PolyFwdX(x_poly_fwd, Xdet, Ydet)), F_scale),
         Y |-> RDiv(Deg*(Ydet + PolyFwdY(y_poly_fwd, Xdet, Ydet)), F_scale)]

\* applyFieldCorrection on sequences of points.
applyFieldCorrection(x_poly_fwd, y_poly_fwd, X_res, Y_res, F_scale, X_data, Y_data) ==
    [i \in 1..Len(X_data) |->
        applyFieldCorrectionPoint(x_poly_fwd, y_poly_fwd, X_res, Y_res, F_scale,
                                  X_data[i], Y_data[i])]


-----------------------------------------------------------------------------
(* Image to horizontal coordinates: XY2altAz                               *)

\* The body of XY2altAz's loop for one rectified point, in the order of the
\* lines 499-523; every step hands its values to the next one.  math.sqrt
\* raises ValueError (math domain error) on a negative argument: ok is FALSE
\* then and the exception leaves XY2altAz.  The result is [ok, az, alt, ra,
\* dec] with ra = RA0det and dec = Dec0det.

\* Lines 519-523: azimuth and altitude of the direction (x, y, z).
AltAzOfXYZ(x, y, z, RA0det, Dec0det) ==
    [ok  |-> TRUE,
     az  |-> PyMod(Atan2Deg(y, x), Turn),
     alt |-> Atan2Deg(z, SqrtFx(Mul(x, x) + Mul(y, y))),
     ra  |-> RA0det,
     dec |-> Dec0det]

\* Lines 509-517: the direction of hour angle h and declination Dec0det.
AltAzOfEquatorial(h, RA0det, Dec0det, lat) ==
    LET sl == Sin(lat)
        cl == Cos(lat)
        sh == Sin(h)
        sd == Sin(Dec0det)
        ch == Cos(h)
        cd == Cos(Dec0det)
    IN  AltAzOfXYZ(-Mul(Mul(ch, cd), sl) + Mul(sd, cl),
                   -Mul(sh, cd),
                   Mul(Mul(ch, cd), cl) + Mul(sd, sl),
                   RA0det, Dec0det)

\* Line 509: h = Ho + lon - RA0det.
HourAngleOfPoint(RA0det, Dec0det, lat, lon, Ho) ==
    AltAzOfEquatorial(Ho + lon - RA0det, RA0det, Dec0det, lat)

\* Lines 505-507: RA0det from Dec0det.
RAOfPoint(radius, theta, Dec0det, lat, lon, RA_d, dec_d, Ho) ==
    LET sin_t  == Div(Mul(Sin(theta), Sin(radius)), NZ(Cos(Dec0det)))
        cos_t  == Div(Cos(radius) - Mul(Sin(Dec0det), Sin(dec_d)),
                      NZ(Mul(NZ(Cos(Dec0det)), NZ(Cos(dec_d)))))
    IN  HourAngleOfPoint(PyMod(RA_d - Atan2Deg(sin_t, cos_t), Turn), Dec0det, lat, lon, Ho)

\* Line 503: Dec0det = atan2(sin_t, sqrt(1 - sin_t**2)).
DecOfPoint(radius, theta, sin_t, lat, lon, RA_d, dec_d, Ho) ==
    IF TrigScale - Mul(sin_t, sin_t) < 0
    THEN [ok |-> FALSE, az |-> 0, alt |-> 0, ra |-> 0, dec |-> 0]
    ELSE RAOfPoint(radius, theta,
                   Atan2Deg(sin_t, SqrtFx(TrigScale - Mul(sin_t, sin_t))),
                   lat, lon, RA_d, dec_d, Ho)

\* Line 502: sin_t from the radius and the polar angle theta.
PolarPoint(radius, theta, lat, lon, RA_d, dec_d, Ho) ==
    DecOfPoint(radius, theta,
               Mul(Sin(dec_d), Cos(radius))
                 + Mul(Mul(Cos(dec_d), Sin(radius)), Cos(theta)),
               lat, lon, RA_d, dec_d, Ho)

\* Lines 499-500: the radius and the polar angle of the rectified point.
XY2altAzPoint(X_pix, Y_pix, lat, lon, RA_d, dec_d, Ho, pos_angle_ref) ==
    PolarPoint(ISqrt(X_pix*X_pix + Y_pix*Y_pix),
               PyMod(Quarter - PosAngle(pos_angle_ref) + Atan2Deg(Y_pix, X_pix), Turn),
               lat, lon, RA_d, dec_d, Ho)

\* Lines 496-529: the loop over the rectified points.
XY2altAzLoop(corrected, lat, lon, RA_d, dec_d, Ho, pos_angle_ref) ==
    [i \in DOMAIN corrected |->
        XY2altAzPoint(corrected[i].X, corrected[i].Y, lat, lon, RA_d, dec_d,
                      Ho, pos_angle_ref)]

\* XY2altAz: a sequence of [ok, az, alt, ra, dec], one per point.
XY2altAz(X_data, Y_data, lat, lon, RA_d, dec_d, Ho, X_res, Y_res, pos_angle_ref, F_scale, x_poly_fwd, y_poly_fwd) ==
    XY2altAzLoop(applyFieldCorrection(x_poly_fwd, y_poly_fwd, X_res, Y_res,
                                      F_scale, X_data, Y_data),
                 lat, lon, RA_d, dec_d, Ho, pos_angle_ref)

-----------------------------------------------------------------------------
(* Field-geometry queries                                                  *)

\* The result of a query that raised an exception.
Raised == [ok |-> FALSE, val |-> 0]

Returned(v) == [ok |-> TRUE, val |-> v]

\* applyFieldCorrection for X_data and Y_data of either shape.  Lines 391-392
\* build the result with np.zeros_like: for two scalars it is an array
\* without dimensions, line 396 still makes one row of them, and the store
\* X_corrected[i] = X_pix of line 441 raises IndexError.  For two arrays the
\* loop fills one result per point.
applyFieldCorrectionShaped(x_poly_fwd, y_poly_fwd, X_res, Y_res, F_scale, shape, X_data, Y_data) ==
    IF shape = "scalar" THEN Raised
    ELSE Returned(applyFieldCorrection(x_poly_fwd, y_poly_fwd, X_res, Y_res, F_scale, X_data, Y_data))

\* Lines 196-198: "wrap output to <-180, 180] range".
HorizonWrap(rot_angle) == IF rot_angle > HalfTurn THEN rot_angle - Turn ELSE rot_angle

\* Lines 187-200: the rotation from the alt/az of the centre, pts[1], and of
\* the point 10 px to its right, pts[2].
HorizonRotationOf(pts) ==
    IF ~pts[1].ok \/ ~pts[2].ok THEN Raised
    ELSE Returned(HorizonWrap(Atan2Deg(pts[2].alt - pts[1].alt, pts[2].az - pts[1].az)))

\* rotationWrtHorizon(platepar): the rotation, or Raised.
rotationWrtHorizon(platepar) ==
    HorizonRotationOf(
        XY2altAz(<<platepar.X_res \div 2, platepar.X_res \div 2 + 10>>,
                 <<platepar.Y_res \div 2, platepar.Y_res \div 2>>,
                 platepar.lat, platepar.lon, platepar.RA_d, platepar.dec_d,
                 platepar.Ho, platepar.X_res, platepar.Y_res,
                 platepar.pos_angle_ref, platepar.F_scale,
                 platepar.x_poly_fwd, platepar.y_poly_fwd))

-----------------------------------------------------------------------------
(* Sidereal time, raDec2AltAz, altAz2RADec, magnitudes, XY2CorrectedRADec  *)

\* The sidereal-time polynomial of lines 336, 601 and 806 for a Julian date
\* of whole days, computed in 1/100000 degree and rounded to an angle:
\* (280.46061837 + 360.98564736629*(JD - 2451545) + ...) % 360.  For whole
\* days 360*(JD - 2451545) is a multiple of 360 and is left out before the
\* product; the T^2 and T^3 terms stay below 0.001 degree for the dates of
\* the model (|JD - 2451545| <= 10000).
SiderealDeg(JD) ==
    RDiv(PyMod(28046062 + 98565*(JD - 2451545), 36000000), 100000 \div Deg) % Turn

\* A wrap of the hour angle that keeps +180 and leaves -180 out.
HourAngleWrapUp(ha) == HalfTurn - PyMod(HalfTurn - ha, Turn)

\* Line 349: ha = (ha + pi) % (2*pi) - pi.
HourAngleWrap(ha) == PyMod(ha + HalfTurn, Turn) - HalfTurn

\* Line 358: sin_elev = (sin_elev + 1) % 2 - 1.
SinElevWrap(sin_elev) == PyMod(sin_elev + TrigScale, 2*TrigScale) - TrigScale

\* Lines 358-360: the sine of the elevation is wrapped and handed to
\* np.arcsin.  The record keeps, beside the azimuth and the elevation that
\* raDec2AltAz returns, the values of its local names: the hour angle before
\* and after line 349, the sine of line 355 (sin_elev) and the argument of
\* np.arcsin (sin_arg).
ElevOfSine(ha_raw, ha, azim, sin_elev) ==
    [ha_raw |-> ha_raw, ha |-> ha, azim |-> azim, sin_elev |-> sin_elev,
     sin_arg |-> SinElevWrap(sin_elev),
     elev |-> AsinDeg(SinElevWrap(sin_elev))]

\* Lines 352-355 for the wrapped hour angle ha; np.tan(dec)*np.cos(lat) is
\* taken as sin(dec)*cos(lat)/cos(dec).
AltAzOfHourAngle(ha_raw, ha, lat, dec) ==
    ElevOfSine(ha_raw, ha,
               HalfTurn + Atan2Deg(Sin(ha),
                   Mul(Cos(ha), Sin(lat)) - Div(Mul(Sin(dec), Cos(lat)), NZ(Cos(dec)))),
               Mul(Sin(lat), Sin(dec)) + Mul(Mul(Cos(lat), Cos(dec)), Cos(ha)))

\* raDec2AltAz(JD, lon, lat, ra, dec), lines 335-349: the local sidereal time
\* and the hour angle.
raDec2AltAz(JD, lon, lat, ra, dec) ==
    AltAzOfHourAngle(SiderealDeg(JD) + lon - ra,
                     HourAngleWrap(SiderealDeg(JD) + lon - ra), lat, dec)

\* Lines 596-604: RA and Dec from the direction (x, y) of the hour angle and
\* the sine s of the declination.
RADecOf(x, y, s, hour_angle, lon) ==
    IF ~AsinOk(s) THEN [ok |-> FALSE, ra |-> 0, dec |-> 0]
    ELSE [ok  |-> TRUE,
          ra  |-> PyMod(hour_angle + lon - Atan2Deg(x, y), Turn),
          dec |-> AsinDeg(s)]

\* The body of altAz2RADec's loop for one point at Julian date JD (UT_corr
\* is 0 at its only call): [ok, ra, dec].  The altitude 89.9999 that line 581
\* puts for an altitude of exactly 90 degrees is 90 degrees at the angles'
\* two decimals.
altAz2RADecPoint(lat, lon, JD, azimuth, altitude) ==
    LET sl   == Sin(lat)
        cl   == Cos(lat)
        salt == Sin(altitude)
        calt == Cos(altitude)
        saz  == Sin(azimuth)
        caz  == Cos(azimuth)
    IN  RADecOf(-Mul(saz, calt),
                -Mul(Mul(caz, sl), calt) + Mul(salt, cl),
                Mul(sl, salt) + Mul(Mul(cl, calt), caz),
                SiderealDeg(JD), lon)

\* log10 of the digits 1 .. 9, times TrigScale (index = digit).
Log10Table == << 0, 3010, 4771, 6021, 6990, 7782, 8451, 9031, 9542 >>

\* np.log10(level)*TrigScale for a level >= 1: exact to the table for
\* d*10^k, and taken at the leading digit otherwise.
RECURSIVE Log10Fx(_)
Log10Fx(level) ==
    IF level < 10 THEN Log10Table[level] ELSE TrigScale + Log10Fx(level \div 10)

\* The magnitude of the first level, put at every index.
calculateMagnitudesOfFirst(level_data, mag_0, mag_lev) ==
    [i \in 1..Len(level_data) |->
        RDiv(mag_0*Log10Fx(level_data[1]), 10) + mag_lev*TrigScale]

\* calculateMagnitudes: mag_0*log10(level) + mag_lev per level, in
\* 1/TrigScale magnitudes; mag_0 is in tenths (-25 is the slope -2.5) and
\* mag_lev in whole magnitudes.
calculateMagnitudes(level_data, mag_0, mag_lev) ==
    [i \in 1..Len(level_data) |->
        RDiv(mag_0*Log10Fx(level_data[i]), 10) + mag_lev*TrigScale]

\* altAz2RADec over the points aa that XY2altAz returned.
altAz2RADec(lat, lon, JD_data, aa) ==
    [i \in DOMAIN aa |->
        IF ~aa[i].ok THEN [ok |-> FALSE, ra |-> 0, dec |-> 0]
        ELSE altAz2RADecPoint(lat, lon, JD_data[i], aa[i].az, aa[i].alt)]

\* cyXYToRADec is compiled code that the repository does not keep beside
\* ApplyAstrometry.py; the module keeps the Python version it replaced (the
\* unreachable lines 697-705: XY2altAz, then altAz2RADec with UT_corr = 0),
\* which is what this models, one record [ok, ra, dec] per point.
cyXYToRADec(JD_data, X_data, Y_data, lat, lon, Ho, X_res, Y_res, RA_d, dec_d, pos_angle_ref, F_scale, x_poly_fwd, y_poly_fwd) ==
    altAz2RADec(lat, lon, JD_data,
                XY2altAz(X_data, Y_data, lat, lon, RA_d, dec_d, Ho, X_res, Y_res,
                         pos_angle_ref, F_scale, x_poly_fwd, y_poly_fwd))

\* The four arrays XY2CorrectedRADec returns, as one record per point.
SkyPoints(JD_data, rd, mags) ==
    [i \in DOMAIN rd |->
        [ok |-> rd[i].ok, JD |-> JD_data[i], ra |-> rd[i].ra,
         dec |-> rd[i].dec, mag |-> mags[i]]]

\* XY2CorrectedRADec: per point [ok, JD, ra, dec, mag].  time_data holds the
\* Julian dates that date2JD makes of the time tuples.
XY2CorrectedRADec(time_data, X_data, Y_data, level_data, lat, lon, Ho, X_res, Y_res, RA_d, dec_d, pos_angle_ref, F_scale, mag_0, mag_lev, x_poly_fwd, y_poly_fwd, station_ht) ==
    SkyPoints(time_data,
              cyXYToRADec(time_data, X_data, Y_data, lat, lon, Ho, X_res, Y_res,
                          RA_d, dec_d, pos_angle_ref, F_scale, x_poly_fwd,
                          y_poly_fwd),
              calculateMagnitudes(level_data, mag_0, mag_lev))

\* XY2CorrectedRADec handed the reverse coefficients of the platepar.
XY2CorrectedRADecPPRev(time_data, X_data, Y_data, level_data, platepar) ==
    XY2CorrectedRADec(time_data, X_data, Y_data, level_data, platepar.lat,
        platepar.lon, platepar.Ho, platepar.X_res, platepar.Y_res, platepar.RA_d,
        platepar.dec_d, platepar.pos_angle_ref, platepar.F_scale, platepar.mag_0,
        platepar.mag_lev, platepar.x_poly_rev, platepar.y_poly_rev, platepar.elev)

\* XY2CorrectedRADecPP: the same, reading the parameters from the platepar.
XY2CorrectedRADecPP(time_data, X_data, Y_data, level_data, platepar) ==
    XY2CorrectedRADec(time_data, X_data, Y_data, level_data, platepar.lat,
        platepar.lon, platepar.Ho, platepar.X_res, platepar.Y_res, platepar.RA_d,
        platepar.dec_d, platepar.pos_angle_ref, platepar.F_scale, platepar.mag_0,
        platepar.mag_lev, platepar.x_poly_fwd, platepar.y_poly_fwd, platepar.elev)

\* Lines 265-277: the rotation from the RA/Dec of the centre, pts[1], and of
\* the point 10 px to its right, pts[2].
StandardRotationOf(pts) ==
    IF ~pts[1].ok \/ ~pts[2].ok THEN Raised
    ELSE Returned(PyMod(Atan2Deg(pts[1].dec - pts[2].dec, pts[1].ra - pts[2].ra), Turn))

\* rotationWrtStandard(platepar): the rotation from the celestial meridian,
\* or Raised.
rotationWrtStandard(platepar) ==
    StandardRotationOf(
        XY2CorrectedRADecPP(<<platepar.JD, platepar.JD>>,
                            <<platepar.X_res \div 2, platepar.X_res \div 2 + 10>>,
                            <<platepar.Y_res \div 2, platepar.Y_res \div 2>>,
                            <<1, 1>>, platepar))

\* RMS.Math.angularSeparation lies outside the files kept here: the
\* great-circle separation of two sky points.
angularSeparation(ra1, dec1, ra2, dec2) ==
    AcosDeg(Max(-TrigScale, Min(TrigScale,
            Mul(Sin(dec1), Sin(dec2)) + Mul(Mul(Cos(dec1), Cos(dec2)), Cos(ra2 - ra1)))))

\* Lines 111-123: the two separations of the four edge midpoints pts.
FOVOf(pts) ==
    IF \E i \in 1..4 : ~pts[i].ok THEN [ok |-> FALSE, fov_h |-> 0, fov_v |-> 0]
    ELSE [ok    |-> TRUE,
          fov_h |-> angularSeparation(pts[1].ra, pts[1].dec, pts[2].ra, pts[2].dec),
          fov_v |-> angularSeparation(pts[3].ra, pts[3].dec, pts[4].ra, pts[4].dec)]

\* computeFOVSize(platepar): [ok, fov_h, fov_v].
computeFOVSize(platepar) ==
    FOVOf(XY2CorrectedRADecPP(
            <<platepar.JD, platepar.JD, platepar.JD, platepar.JD>>,
            <<0, platepar.X_res, platepar.X_res \div 2, platepar.X_res \div 2>>,
            <<platepar.Y_res \div 2, platepar.Y_res \div 2, 0, platepar.Y_res>>,
            <<1, 1, 1, 1>>, platepar))

-----------------------------------------------------------------------------
(* Photometry: photomLine, photometryFit                                   *)

\* A line of slope -1 through the offset.
photomLineUnitSlope(lsp, photom_offset) == -lsp + photom_offset

\* photomLine (lines 51-63): -2.5*lsp + photom_offset, on fixed-point reals.
photomLine(lsp, photom_offset) == RDiv(-25*lsp, 10) + photom_offset

RECURSIVE SumOf(_)
\* The sum of the numbers of a list (np.sum, np.mean).
SumOf(values) == IF values = <<>> THEN 0 ELSE Head(values) + SumOf(Tail(values))

\* The loss soft_l1 of scipy.optimize.least_squares at a residual r, with
\* the default f_scale = 1: rho(r^2) = 2*(sqrt(1 + r^2) - 1).
SoftL1(r) == 2*(SqrtFx(TrigScale + Mul(r, r)) - TrigScale)

\* What the fit of lines 81-82 minimizes at the offset photom_offset: the
\* losses of the residuals photomLine(logsum_px) - catalog_mags, summed.
RobustCost(logsum_px, catalog_mags, photom_offset) ==
    SumOf([i \in 1 .. Len(logsum_px) |->
              SoftL1(photomLine(logsum_px[i], photom_offset) - catalog_mags[i])])

\* The offsets of the model are multiples of 0.1 mag.
OffsetStep == TrigScale \div 10

\* The offset that puts the line through star i.
StarOffset(logsum_px, catalog_mags, i) == catalog_mags[i] - photomLine(logsum_px[i], 0)

\* The least and the largest of the stars' offsets.
LeastStarOffset(logsum_px, catalog_mags) ==
    CHOOSE o \in {StarOffset(logsum_px, catalog_mags, i) : i \in 1 .. Len(logsum_px)} :
        \A i \in 1 .. Len(logsum_px) : o <= StarOffset(logsum_px, catalog_mags, i)

LargestStarOffset(logsum_px, catalog_mags) ==
    CHOOSE o \in {StarOffset(logsum_px, catalog_mags, i) : i \in 1 .. Len(logsum_px)} :
        \A i \in 1 .. Len(logsum_px) : o >= StarOffset(logsum_px, catalog_mags, i)

\* The offsets the fit chooses among: the cost is convex in the offset and
\* decreases towards the stars' offsets, so its minimum lies between the
\* least and the largest of them; the candidates reach half a magnitude
\* beyond on either side.
OffsetsBetween(least, largest) ==
    {least - 5*OffsetStep + k*OffsetStep :
        k \in 0 .. (largest - least) \div OffsetStep + 10}

\* The candidate of least cost, the least one if several cost the same;
\* cost is the function from the candidates to their costs.
LeastCost(cost) ==
    CHOOSE o \in DOMAIN cost :
        \A q \in DOMAIN cost : cost[o] < cost[q] \/ (cost[o] = cost[q] /\ o <= q)

\* The fit's start value p0 = 1.0 (the default of curve_fit) returned as it
\* is.
curve_fitStart(logsum_px, catalog_mags) == TrigScale

\* scipy.optimize.curve_fit(photomLine, logsum_px, catalog_mags,
\* method='trf', loss='soft_l1') of lines 81-82: the offset that minimizes
\* the robust cost.  The lists hold at least one star.
curve_fit(logsum_px, catalog_mags) ==
    LeastCost([o \in OffsetsBetween(LeastStarOffset(logsum_px, catalog_mags),
                                    LargestStarOffset(logsum_px, catalog_mags)) |->
                  RobustCost(logsum_px, catalog_mags, o)])

\* Line 85: fit_resids = catalog_mags - photomLine(logsum_px, photom_offset).
FitResiduals(logsum_px, catalog_mags, photom_offset) ==
    [i \in 1 .. Len(logsum_px) |->
        catalog_mags[i] - photomLine(logsum_px[i], photom_offset)]

\* The mean of the squares of the differences between the values and mean.
MeanSquare(values, mean) ==
    RDiv(SumOf([i \in 1 .. Len(values) |-> Mul(values[i] - mean, values[i] - mean)]),
         Len(values))

\* np.std of line 86: the population standard deviation.
StdDev(values) == SqrtFx(MeanSquare(values, RDiv(SumOf(values), Len(values))))

\* Lines 85-88 with the fitted offset.
photometryFitWith(logsum_px, catalog_mags, photom_offset) ==
    [photom_offset |-> photom_offset,
     fit_stddev    |-> StdDev(FitResiduals(logsum_px, catalog_mags, photom_offset)),
     fit_resids    |-> FitResiduals(logsum_px, catalog_mags, photom_offset)]

\* photometryFit (lines 66-88): [photom_offset, fit_stddev, fit_resids].
photometryFit(logsum_px, catalog_mags) ==
    photometryFitWith(logsum_px, catalog_mags, curve_fit(logsum_px, catalog_mags))

-----------------------------------------------------------------------------
(* Sky to image coordinates: raDecToCorrectedXY                            *)

\* A term of a distortion polynomial: a zero coefficient contributes 0.
PolyTerm(c, v) == IF c = 0 THEN 0 ELSE c*v

\* The terms that the reverse polynomials of X and Y share (indices 0 .. 9 of
\* the program), at the point (X1, Y1) given in 1/Deg px: the value is in
\* 1/Deg px too.
PolyRevCommon(c, X1, Y1) ==
    Deg*c[1] + c[2]*X1 + c[3]*Y1
    + PolyTerm(c[4], RDiv(X1*X1, Deg)) + PolyTerm(c[5], RDiv(X1*Y1, Deg))
    + PolyTerm(c[6], RDiv(Y1*Y1, Deg))
    + PolyTerm(c[7], RDiv(RDiv(X1*X1, Deg)*X1, Deg))
    + PolyTerm(c[8], RDiv(RDiv(X1*X1, Deg)*Y1, Deg))
    + PolyTerm(c[9], RDiv(RDiv(Y1*Y1, Deg)*X1, Deg))
    + PolyTerm(c[10], RDiv(RDiv(Y1*Y1, Deg)*Y1, Deg))

\* Lines 843-855: the distortion in X; c is x_poly_rev.
PolyRevX(c, X1, Y1) ==
    PolyRevCommon(c, X1, Y1)
    + PolyTerm(c[11], RDiv(X1*ISqrt(X1*X1 + Y1*Y1), Deg))
    + PolyTerm(c[12], RDiv(Y1*ISqrt(X1*X1 + Y1*Y1), Deg))

\* Lines 861-873: the distortion in Y; c is y_poly_rev.
PolyRevY(c, X1, Y1) ==
    PolyRevCommon(c, X1, Y1)
    + PolyTerm(c[11], RDiv(Y1*ISqrt(X1*X1 + Y1*Y1), Deg))
    + PolyTerm(c[12], RDiv(X1*ISqrt(X1*X1 + Y1*Y1), Deg))

\* The image coordinates with the correction added in place of subtracted.
ImageOfStandardAdded(X1, Y1, x_res, y_res, x_poly_rev, y_poly_rev) ==
    [ok |-> TRUE,
     x  |-> X1 + PolyRevX(x_poly_rev, X1, Y1) + Deg*(x_res \div 2),
     y  |-> Y1 + PolyRevY(y_poly_rev, X1, Y1) + Deg*(y_res \div 2)]

\* Lines 857 and 876: the image coordinates, in 1/Deg px.
ImageOfStandard(X1, Y1, x_res, y_res, x_poly_rev, y_poly_rev) ==
    [ok |-> TRUE,
     x  |-> X1 - PolyRevX(x_poly_rev, X1, Y1) + Deg*(x_res \div 2),
     y  |-> Y1 - PolyRevY(y_poly_rev, X1, Y1) + Deg*(y_res \div 2)]

\* Lines 838-840: the standard coordinates of the star at the angular
\* distance radius from the centre, in the direction theta.
StandardOfPolar(radius, theta, x_res, y_res, F_scale, x_poly_rev, y_poly_rev) ==
    ImageOfStandard(Mul(radius, Cos(theta))*F_scale, Mul(radius, Sin(theta))*F_scale,
                    x_res, y_res, x_poly_rev, y_poly_rev)

\* Lines 831-835: the direction of the star from the centre; the divisions
\* by sin(ad) raise ZeroDivisionError for a star at the centre.
PolarOfStar(ra_s, dec_s, ra_c, dec_c, ad, x_res, y_res, pos_angle_ref, F_scale, x_poly_rev, y_poly_rev) ==
    IF Sin(ad) = 0 \/ Mul(Cos(dec_c), Sin(ad)) = 0 THEN [ok |-> FALSE, x |-> 0, y |-> 0]
    ELSE StandardOfPolar(ad,
            -Atan2Deg(Div(Mul(Cos(dec_s), Sin(ra_s - ra_c)), Sin(ad)),
                      Div(Sin(dec_s) - Mul(Sin(dec_c), Cos(ad)),
                          Mul(Cos(dec_c), Sin(ad))))
              + PosAngle(pos_angle_ref) - Quarter,
            x_res, y_res, F_scale, x_poly_rev, y_poly_rev)

\* Line 828: the angular distance of the star from the centre; math.acos
\* raises ValueError outside [-1, 1].
DistanceOfStar(ra_s, dec_s, ra_c, dec_c, cos_ad, x_res, y_res, pos_angle_ref, F_scale, x_poly_rev, y_poly_rev) ==
    IF ~AsinOk(cos_ad) THEN [ok |-> FALSE, x |-> 0, y |-> 0]
    ELSE PolarOfStar(ra_s, dec_s, ra_c, dec_c, AcosDeg(cos_ad), x_res, y_res,
                     pos_angle_ref, F_scale, x_poly_rev, y_poly_rev)

\* Lines 820-876, the body of the loop for one star: [ok, x, y].
StarToImage(ra_s, dec_s, centre, x_res, y_res, pos_angle_ref, F_scale, x_poly_rev, y_poly_rev) ==
    IF ~centre.ok THEN [ok |-> FALSE, x |-> 0, y |-> 0]
    ELSE DistanceOfStar(ra_s, dec_s, centre.ra, centre.dec,
            Mul(Sin(centre.dec), Sin(dec_s))
              + Mul(Mul(Cos(centre.dec), Cos(dec_s)), Cos(ra_s - centre.ra)),
            x_res, y_res, pos_angle_ref, F_scale, x_poly_rev, y_poly_rev)

\* Lines 818-880: the loop over the stars.
StarsToImage(RA_data, dec_data, centre, x_res, y_res, pos_angle_ref, F_scale, x_poly_rev, y_poly_rev) ==
    [i \in DOMAIN RA_data |->
        StarToImage(RA_data[i], dec_data[i], centre, x_res, y_res, pos_angle_ref,
                    F_scale, x_poly_rev, y_poly_rev)]

\* cyRaDecToCorrectedXY is compiled code that the repository does not keep
\* beside ApplyAstrometry.py; the module keeps the Python version it replaced
\* ("equivalent to the cython code", lines 796-886), which is what this
\* models.  Lines 803-816 are the formulas of altAz2RADec at the Julian date
\* jd: they give the centre of the field, [ok, ra, dec].
cyRaDecToCorrectedXY(RA_data, dec_data, jd, lat, lon, x_res, y_res, az_centre, alt_centre, pos_angle_ref, F_scale, x_poly_rev, y_poly_rev) ==
    StarsToImage(RA_data, dec_data,
                 altAz2RADecPoint(lat, lon, jd, az_centre, alt_centre),
                 x_res, y_res, pos_angle_ref, F_scale, x_poly_rev, y_poly_rev)

\* Lines 785-793 with the centre's [azim, elev] that raDec2AltAz returned and
\* the Julian date jd that line 789 left.
raDecToCorrectedXYFrom(centre, RA_data, dec_data, jd, lat, lon, x_res, y_res, pos_angle_ref, F_scale, x_poly_rev, y_poly_rev) ==
    cyRaDecToCorrectedXY(RA_data, dec_data, jd, lat, lon, x_res, y_res,
                         centre.azim, centre.elev, pos_angle_ref, F_scale,
                         x_poly_rev, y_poly_rev)

\* Line 789, jd -= UT_corr/24.0, as the function sees it.  The Julian dates
\* of the model are whole days, so its UT corrections are whole days too:
\* UT_corr is a multiple of 24 hours.
JdCorrected(jd, UT_corr) == jd - UT_corr \div 24

\* Line 789 as the caller sees it.  For a Python float, -= binds the local
\* name jd to a new float and the caller's value stays; for a numpy array it
\* subtracts in place, in the array the caller passed.
JdOfCaller(shape, jd, UT_corr) ==
    IF shape = "array" THEN JdCorrected(jd, UT_corr) ELSE jd

\* raDecToCorrectedXY: one record [ok, x, y] per star, x and y in 1/Deg px.
raDecToCorrectedXY(RA_data, dec_data, jd, lat, lon, x_res, y_res, RA_d, dec_d, ref_jd, pos_angle_ref, F_scale, x_poly_rev, y_poly_rev, UT_corr) ==
    raDecToCorrectedXYFrom(raDec2AltAz(ref_jd, lon, lat, RA_d, dec_d),
                           RA_data, dec_data, JdCorrected(jd, UT_corr),
                           lat, lon, x_res, y_res,
                           pos_angle_ref, F_scale, x_poly_rev, y_poly_rev)

\* raDecToCorrectedXYPP: the same, reading the parameters from the platepar.
raDecToCorrectedXYPP(RA_data, dec_data, jd, platepar) ==
    raDecToCorrectedXY(RA_data, dec_data, jd, platepar.lat, platepar.lon,
        platepar.X_res, platepar.Y_res, platepar.RA_d, platepar.dec_d, platepar.JD,
        platepar.pos_angle_ref, platepar.F_scale, platepar.x_poly_rev,
        platepar.y_poly_rev, platepar.UT_corr)

-----------------------------------------------------------------------------
(* The position-angle solver                                               *)

\* The plain difference of the two angles, without the fold at 180 degrees.
AngleDifference(rot_angle, computed) == Abs(rot_angle - PyMod(computed, Turn))

\* The residual of _rotAngleResidual (lines 226-229 and 304-307): rot_angle
\* is the target already reduced mod 360 (lines 217, 295), computed is what
\* rotationWrtHorizon or rotationWrtStandard returned.
rotAngleResidual(rot_angle, computed) ==
    LET rot_angle_computed == PyMod(computed, Turn)
    IN  HalfTurn - Abs(Abs(rot_angle - rot_angle_computed) - HalfTurn)

\* scipy.optimize.minimize(..., method='Nelder-Mead') with one parameter, as
\* lines 234 and 312 call it: the simplex is the pair (sim0, sim1) with
\* values (f0, f1), sim0 the better vertex.  The reflection, expansion,
\* contraction and shrink coefficients are 1, 2, 1/2 and 1/2; the search ends
\* after MaxIter iterations or function calls (200 per parameter), or when
\* both the simplex and the spread of its values are within xatol = fatol =
\* 1e-4 degree, which is below the model's resolution and so means that they
\* are 0.
MaxIter == 200

\* d/2, cut to the grid towards zero.
Half(d) == IF d >= 0 THEN d \div 2 ELSE -((-d) \div 2)

\* The second vertex of the initial simplex: x0 enlarged by 5 %, or, for
\* x0 = 0, the step 0.00025, for which the model has its smallest angle.
NMSecondVertex(x0) == IF x0 # 0 THEN x0 + RDiv(5*x0, 100) ELSE 1

NMSort(s) ==
    IF s.f1 < s.f0
    THEN [s EXCEPT !.sim0 = s.sim1, !.f0 = s.f1, !.sim1 = s.sim0, !.f1 = s.f0]
    ELSE s

\* The head of the minimizer's loop: the next point to evaluate, or the end.
NMLoop(s) ==
    IF s.fcalls < MaxIter /\ s.iter < MaxIter
       /\ ~(Abs(s.sim1 - s.sim0) <= 0 /\ Abs(s.f0 - s.f1) <= 0)
    THEN [s EXCEPT !.phase = "reflect", !.cand = 2*s.sim0 - s.sim1,
                   !.xr = 0, !.fxr = 0]
    ELSE [s EXCEPT !.phase = "finished", !.cand = 0, !.xr = 0, !.fxr = 0]

NMEndIter(s) == NMLoop([NMSort(s) EXCEPT !.iter = @ + 1])

\* The minimizer's state after the objective returned f for s.cand.
NMFeed(s0, f) ==
    LET s == [s0 EXCEPT !.fcalls = @ + 1]
    IN  CASE s.phase = "x0" ->
               [s EXCEPT !.sim0 = s.cand, !.f0 = f, !.phase = "x1",
                         !.cand = NMSecondVertex(s.cand)]
          [] s.phase = "x1" ->
               NMLoop([NMSort([s EXCEPT !.sim1 = s.cand, !.f1 = f]) EXCEPT !.iter = 1])
          [] s.phase = "reflect" ->
               IF f < s.f0
               THEN [s EXCEPT !.phase = "expand", !.xr = s.cand, !.fxr = f,
                              !.cand = 3*s.sim0 - 2*s.sim1]
               ELSE IF f < s.f1
               THEN [s EXCEPT !.phase = "contract", !.xr = s.cand, !.fxr = f,
                              !.cand = s.sim0 + Half(s.sim0 - s.sim1)]
               ELSE [s EXCEPT !.phase = "inside", !.xr = s.cand, !.fxr = f,
                              !.cand = s.sim0 + Half(s.sim1 - s.sim0)]
          [] s.phase = "expand" ->
               IF f < s.fxr
               THEN NMEndIter([s EXCEPT !.sim1 = s.cand, !.f1 = f])
               ELSE NMEndIter([s EXCEPT !.sim1 = s.xr, !.f1 = s.fxr])
          [] s.phase = "contract" ->
               IF f <= s.fxr
               THEN NMEndIter([s EXCEPT !.sim1 = s.cand, !.f1 = f])
               ELSE [s EXCEPT !.phase = "shrink",
                              !.cand = s.sim0 + Half(s.sim1 - s.sim0)]
          [] s.phase = "inside" ->
               IF f < s.f1
               THEN NMEndIter([s EXCEPT !.sim1 = s.cand, !.f1 = f])
               ELSE [s EXCEPT !.phase = "shrink",
                              !.cand = s.sim0 + Half(s.sim1 - s.sim0)]
          [] s.phase = "shrink" ->
               NMEndIter([s EXCEPT !.sim1 = s.cand, !.f1 = f])

\* The minimizer's state when minimize is called with the start x0.
NMStart(x0) ==
    [phase |-> "x0", cand |-> x0, sim0 |-> 0, f0 |-> 0, sim1 |-> 0, f1 |-> 0,
     xr |-> 0, fxr |-> 0, iter |-> 0, fcalls |-> 0]

\* What lines 238 and 316 return for the minimizer's result x.
SolverReturn(x) == FloatMod(x, FineTurn)

\* The rotation function the solver of a frame inverts.
Rotation(frame, platepar) ==
    IF frame = "horizon" THEN rotationWrtHorizon(platepar)
                         ELSE rotationWrtStandard(platepar)

\* rotationWrtHorizonToPosAngle(platepar, rot_angle), or its Standard twin,
\* run from the minimizer's state nm to its end with nothing else running:
\* Returned(position angle), or Raised when the rotation function raises.
\* rot_angle is the target reduced mod 360, platepar the value of the copy.
RECURSIVE SolverRun(_, _, _, _)
SolverRunFed(frame, rot_angle, platepar, nm, rot) ==
    IF ~rot.ok THEN Raised
    ELSE SolverRun(frame, rot_angle, platepar,
                   NMFeed(nm, rotAngleResidual(rot_angle, rot.val)))

SolverRun(frame, rot_angle, platepar, nm) ==
    IF nm.phase = "finished" THEN Returned(SolverReturn(nm.sim0))
    ELSE SolverRunFed(frame, rot_angle, platepar, nm,
                      Rotation(frame, [platepar EXCEPT !.pos_angle_ref = nm.cand]))

\* The position-angle solver of a frame as a function of its arguments.
ToPosAngle(frame, platepar, rot_angle) ==
    SolverRun(frame, PyMod(rot_angle, Turn), platepar, NMStart(platepar.pos_angle_ref))

-----------------------------------------------------------------------------
(* State                                                                   *)

VARIABLES
    heap,     \* the Platepar objects: heap[r] is the object the reference r names
    solver,   \* solver[t]: the position-angle solver call of thread t
    query,    \* the last field-geometry query on the caller's platepar
    fn,       \* a call of a function that takes no platepar: [op, ...]
    disk,     \* the night directory: the FTPdetectinfo file and its backup
    apply,    \* the applyAstrometryFTPdetectinfo call under way
    flux,     \* the main loop of FluxAuto
    walk,     \* the directory walk of fluxAutoRun
    logging   \* the logging module and the Logger class

\* The state of the astrometry core and of the programs around it.
core == <<heap, solver, query, fn>>

utils == <<disk, apply, flux, walk, logging>>

vars == <<heap, solver, query, fn, utils>>

\* The reference of the caller's platepar, and of the copy thread t makes.
CallerRef == 1

Threads == {1, 2}

CopyRef(t) == CallerRef + t

NoObj == [none |-> TRUE]

NoQuery == [op |-> "none"]

NoFn == [op |-> "none"]

Z12 == <<0, 0, 0, 0, 0, 0, 0, 0, 0, 0, 0, 0>>

\* A platepar of a 64 x 36 px camera with 1 px/deg, at the reference Julian
\* date JD; Ho is the sidereal time of JD, as the platepar keeps it.
Platepar(lat, lon, RA_d, dec_d, JD, pos_angle_ref, x_poly_fwd) ==
    [lat |-> lat, lon |-> lon, elev |-> 100, RA_d |-> RA_d, dec_d |-> dec_d,
     JD |-> JD, Ho |-> SiderealDeg(JD), UT_corr |-> 0,
     X_res |-> 64, Y_res |-> 36, F_scale |-> 1, pos_angle_ref |-> pos_angle_ref,
     x_poly_fwd |-> x_poly_fwd, y_poly_fwd |-> Z12,
     x_poly_rev |-> Z12, y_poly_rev |-> Z12,
     mag_0 |-> -25, mag_lev |-> 10]

\* A camera at 45 N, 15 E that looks east at mid altitude.
CamEast(pos) == Platepar(45*Deg, 15*Deg, 100*Deg, 40*Deg, 2458000, pos, Z12)

\* One whose centre is within a few degrees of due north, so that the
\* azimuths of its field lie on both sides of 0 = 360 degrees.
CamNorth(pos) == Platepar(45*Deg, 15*Deg, 358*Deg, 75*Deg, 2458000, pos, Z12)

\* One near the celestial pole, with a constant term in its X polynomial.
CamPole(pos) ==
    Platepar(45*Deg, 15*Deg, 100*Deg, 81*Deg, 2458000, pos, [Z12 EXCEPT ![1] = -1])

\* One whose centre is the zenith at the reference date: Dec = latitude and
\* RA = local sidereal time.
CamZenith(pos) ==
    Platepar(45*Deg, 15*Deg, PyMod(SiderealDeg(2458000) + 15*Deg, Turn), 45*Deg,
             2458000, pos, Z12)

\* The position angles the model's platepars start with: 90 and 340 degrees,
\* and a negative angle next to 0 (such as -1e-17 degree).  (From a start of
\* exactly 0 the minimizer's first step is 0.00025 degree, which the model's
\* numbers do not resolve.)
StartAngles == {90*Deg*Fine, 340*Deg*Fine, -1}

Cameras(pos) == {CamEast(pos), CamNorth(pos), CamPole(pos)}

\* The target rotations the solvers are asked for.
Targets == {-90*Deg, 0, 180*Deg, 400*Deg}

Frames == {"horizon", "standard"}

IdleSolver ==
    [pc |-> "idle", frame |-> "none", rot_angle |-> 0, platepar |-> 0,
     nm |-> NMStart(0), res |-> 0]

\* A file that does not exist, and a file with its content: the meteors of
\* an FTPdetectinfo file and the number of the calibration that wrote it (0
\* for the file the detector wrote).
NoFile == [exists |-> FALSE, calibration |-> 0, meteors |-> <<>>]

FileOf(calibration, meteors) ==
    [exists |-> TRUE, calibration |-> calibration, meteors |-> meteors]

\* A night directory without the two files, and no call under way.
NoDisk == [ftp |-> NoFile, copy |-> NoFile]

NoApply == [pc |-> "idle", calls |-> 0, meteor_data |-> <<>>, meteor_list |-> <<>>]

\* FluxAuto before its arguments are parsed.
NoFlux ==
    [auto_given |-> FALSE, auto |-> 0, time_given |-> FALSE, zone |-> 0,
     pc |-> "done", now |-> 0, previous_start_given |-> FALSE,
     previous_start_time |-> 0, wait_time |-> 0, next_run_time |-> 0,
     runs |-> 0]

\* A dictionary without keys, and fluxAutoRun before it walks.
EmptyDict == [k \in {} |-> <<>>]

NoWalk ==
    [pc |-> "done", todo |-> <<>>, inspected |-> <<>>,
     shower_dirs |-> EmptyDict, shower_dirs_ref_year |-> EmptyDict]

\* RMS.Logger and the logging module after import (Logger.py, lines 29-34):
\* no Logger object, the root logger without handlers.
NoLogging ==
    [_instance |-> NoObj, _initialized |-> FALSE, objects |-> 0,
     returned |-> <<>>, handlers |-> <<>>, level |-> "WARNING", got |-> <<>>]

InitWith(callerModels, calls) ==
    /\ heap \in {[r \in CallerRef .. CallerRef + 2 |-> IF r = CallerRef THEN m ELSE NoObj] :
                    m \in callerModels}
    /\ solver = [t \in Threads |-> IdleSolver]
    /\ query = NoQuery
    /\ fn \in calls
    /\ disk = NoDisk
    /\ apply = NoApply
    /\ flux = NoFlux
    /\ walk = NoWalk
    /\ logging = NoLogging

Init == InitWith(UNION {Cameras(pos) : pos \in StartAngles}, {NoFn})

-----------------------------------------------------------------------------
(* The solver's steps                                                      *)

\* A plain assignment in place of the copy: both names are bound to the
\* caller's object.
SameObject(ref, fresh) == ref

\* copy.deepcopy(platepar) of lines 216 and 294: the reference the solver's
\* local name platepar is bound to, given the caller's reference and the
\* reference of the fresh object that holds the copy.
deepcopy(ref, fresh) == fresh

\* Lines 216-217 (294-295) and the start of minimize at line 234 (312) of a
\* call with one of the given <<frame, rot_angle>>: the platepar is copied,
\* the target reduced mod 360, and the minimizer is seeded with the copy's
\* position angle.
SolverCallWith(t, requests) ==
    /\ solver[t].pc = "idle"
    /\ \E rq \in requests :
          /\ heap' = [heap EXCEPT ![CopyRef(t)] = heap[CallerRef]]
          /\ solver' = [solver EXCEPT ![t] =
                [pc |-> "set", frame |-> rq[1],
                 rot_angle |-> PyMod(rq[2], Turn),
                 platepar |-> deepcopy(CallerRef, CopyRef(t)),
                 nm |-> NMStart(heap'[deepcopy(CallerRef, CopyRef(t))].pos_angle_ref),
                 res |-> 0]]
    /\ query' = NoQuery
    /\ UNCHANGED <<fn, utils>>

SolverCall(t) == SolverCallWith(t, Frames \X Targets)

\* Line 223 (301): _rotAngleResidual stores the candidate position angle in
\* the platepar the solver holds.
SetPosAngle(t) ==
    /\ solver[t].pc = "set"
    /\ heap' = [heap EXCEPT ![solver[t].platepar].pos_angle_ref = solver[t].nm.cand]
    /\ solver' = [solver EXCEPT ![t].pc = "rot"]
    /\ UNCHANGED <<query, fn, utils>>

\* The solver s after the minimizer got the value nm's candidate has.
Continued(s, nm) ==
    [s EXCEPT !.nm = nm, !.pc = IF nm.phase = "finished" THEN "ret" ELSE "set"]

\* The solver s after the rotation function returned (or raised) rot.
Evaluated(s, rot) ==
    IF ~rot.ok THEN [s EXCEPT !.pc = "error"]
    ELSE Continued(s, NMFeed(s.nm, rotAngleResidual(s.rot_angle, rot.val)))

\* Lines 226-229 (304-307): the rotation of the platepar the solver holds is
\* computed and the residual is handed to the minimizer, which picks its next
\* candidate or ends.  An exception of the rotation function leaves minimize
\* and the solver.
EvalResidual(t) ==
    /\ solver[t].pc = "rot"
    /\ solver' = [solver EXCEPT ![t] =
          Evaluated(solver[t], Rotation(solver[t].frame, heap[solver[t].platepar]))]
    /\ UNCHANGED <<heap, query, fn, utils>>

\* Line 238 (316): return res.x[0] % 360.
SolverRet(t) ==
    /\ solver[t].pc = "ret"
    /\ solver' = [solver EXCEPT ![t].pc = "done",
                                ![t].res = SolverReturn(solver[t].nm.sim0)]
    /\ UNCHANGED <<heap, query, fn, utils>>

\* No solver call is under way.
Quiet == \A t \in Threads : solver[t].pc \in {"idle", "done", "error"}

\* The caller asks a field-geometry query of its platepar.
QueryRotationWrtHorizon ==
    /\ Quiet
    /\ query' = [op |-> "rotationWrtHorizon", ret |-> rotationWrtHorizon(heap[CallerRef])]
    /\ UNCHANGED <<heap, solver, fn, utils>>

QueryRotationWrtStandard ==
    /\ Quiet
    /\ query' = [op |-> "rotationWrtStandard", ret |-> rotationWrtStandard(heap[CallerRef])]
    /\ UNCHANGED <<heap, solver, fn, utils>>

QueryComputeFOVSize ==
    /\ Quiet
    /\ query' = [op |-> "computeFOVSize", ret |-> computeFOVSize(heap[CallerRef])]
    /\ UNCHANGED <<heap, solver, fn, utils>>

SolverStep(t) == SolverCall(t) \/ SetPosAngle(t) \/ EvalResidual(t) \/ SolverRet(t)

Queries == QueryRotationWrtHorizon \/ QueryRotationWrtStandard \/ QueryComputeFOVSize

\* One caller: the queries and the two solvers, one call at a time.
Next == SolverStep(1) \/ Queries

Spec == Init /\ [][Next]_vars

-----------------------------------------------------------------------------
(* Two solver calls at once on one caller's platepar                       *)

\* The calls of the two threads: thread 1 asks the horizon solver for 400
\* degrees, thread 2 the standard solver for -90 degrees or the horizon
\* solver for another target.
Requests(t) ==
    IF t = 1 THEN {<<"horizon", 400*Deg>>}
             ELSE {<<"standard", -90*Deg>>, <<"horizon", 0>>}

SolverCallConc(t) == SolverCallWith(t, Requests(t))

SolverStepConc(t) ==
    SolverCallConc(t) \/ SetPosAngle(t) \/ EvalResidual(t) \/ SolverRet(t)

InitConc == InitWith({CamEast(90*Deg*Fine)}, {NoFn})

\* The steps of the two calls interleave in every order.
NextConc == SolverStepConc(1) \/ SolverStepConc(2)

SpecConc == InitConc /\ [][NextConc]_vars

-----------------------------------------------------------------------------
(* The functions that take no platepar, and the pixel round trip           *)

\* The largest multiple of 45 degrees among the angles handed to the
\* functions: they range over -MaxOctant*45 .. MaxOctant*45 degrees.
MaxOctant == 9

Octants == {k*45*Deg : k \in -MaxOctant .. MaxOctant}

\* Julian date and longitude of the raDec2AltAz calls.
Sites == {<<2451545, 0>>, <<2458000, 15*Deg>>}

Latitudes == {-90*Deg, 0, 45*Deg, 90*Deg}

Declinations == {-90*Deg, -45*Deg, 0, 45*Deg, 90*Deg}

\* raDec2AltAz calls whose hour angle LST - RA is o or o + 17 degrees for an
\* octant o.
AltAzCalls ==
    {[op |-> "raDec2AltAz", stage |-> "call", JD |-> st[1], lon |-> st[2],
      lat |-> lat, ra |-> SiderealDeg(st[1]) + st[2] - o - e, dec |-> dec] :
        st \in Sites, lat \in Latitudes, o \in Octants, e \in {0, 17*Deg},
        dec \in Declinations}

\* Residuals of a target and a computed rotation, on and beside the octants.
ResidualCalls ==
    {[op |-> "rotAngleResidual", stage |-> "call", target |-> o1,
      computed |-> o2 + e] :
        o1 \in Octants, o2 \in Octants, e \in {-1, 0, 1, 17*Deg}}

\* The pixels of the round trips: a grid over the image, without the pixels
\* less than 3 px from the centre (the star at the centre itself divides by
\* sin(0) at lines 831-832).
Pixels ==
    {px \in {2 + 10*i : i \in 0 .. 6} \X {2 + 8*j : j \in 0 .. 4} :
        (px[1] - 32)*(px[1] - 32) + (px[2] - 18)*(px[2] - 18) >= 9}

RoundTripCalls ==
    {[op |-> "roundTrip", stage |-> "call", x |-> px[1], y |-> px[2]] : px \in Pixels}

\* A platepar whose forward polynomials have twelve non-zero coefficients,
\* the two radial ones different from each other, and an image scale of 3
\* px/deg.
CamWarped ==
    [CamEast(90*Deg*Fine) EXCEPT !.F_scale = 3,
        !.x_poly_fwd = <<3, 1, -2, 1, -1, 2, 1, -1, 1, -2, 2, -3>>,
        !.y_poly_fwd = <<-1, 2, 1, -2, 1, 1, -1, 2, -1, 1, 3, -2>>]

\* The image points handed to applyFieldCorrection.
RectifyPixels == {<<2, 5>>, <<40, 18>>, <<32, 30>>, <<63, 0>>}

\* The point lists of the calls: one to three points, in every order and
\* with repetitions.
RectifyLists == UNION {[1 .. n -> RectifyPixels] : n \in 1 .. 3}

\* applyFieldCorrection calls: X_data and Y_data are two arrays of the same
\* length, or two scalars (kept as lists of one value).
RectifyCalls ==
    {[op |-> "applyFieldCorrection", stage |-> "call", shape |-> "array",
      X_data |-> [i \in 1 .. Len(l) |-> l[i][1]],
      Y_data |-> [i \in 1 .. Len(l) |-> l[i][2]]] : l \in RectifyLists}
    \cup
    {[op |-> "applyFieldCorrection", stage |-> "call", shape |-> "scalar",
      X_data |-> <<px[1]>>, Y_data |-> <<px[2]>>] : px \in RectifyPixels}

\* A platepar whose reverse polynomials have twelve non-zero coefficients.
CamReversed ==
    [CamEast(90*Deg*Fine) EXCEPT
        !.x_poly_rev = <<2, -1, 1, 1, 2, -1, -1, 1, 2, 1, -2, 3>>,
        !.y_poly_rev = <<-3, 1, 2, -1, 1, 2, 1, -2, 1, -1, 1, -2>>]

\* Undistorted plane coordinates (X1, Y1), already multiplied by F_scale, in
\* whole px and with a whole distance from the centre.
StandardPoints == {<<3, 4>>, <<-6, 8>>, <<5, -12>>, <<0, 7>>, <<-8, -15>>}

\* The distortion step of raDecToCorrectedXY (lines 843-876) at such points.
DistortCalls ==
    {[op |-> "distort", stage |-> "call", X1 |-> pt[1], Y1 |-> pt[2]] :
        pt \in StandardPoints}

\* Whole pixels of the image, at its corners, beside its centre and between.
RectifiedPixels == {0, 1, 31, 32, 33, 40, 63} \X {0, 17, 18, 19, 35}

\* A pixel rectified by applyFieldCorrection and handed back, multiplied by
\* F_scale, to the distortion step.
RectifyDistortCalls ==
    {[op |-> "rectifyDistort", stage |-> "call", x |-> px[1], y |-> px[2]] :
        px \in RectifiedPixels}

\* The operations that take a platepar: the four from pixels to the sky and
\* the one from the sky to pixels.
PlateparOps ==
    {"XY2CorrectedRADecPP", "rotationWrtHorizon", "rotationWrtStandard",
     "computeFOVSize", "raDecToCorrectedXYPP"}

\* An operation on the caller's platepar, to be compared with the operation
\* on a platepar with other coefficients of the direction it does not take.
CoefficientCalls ==
    {[op |-> "coefficients", stage |-> "call", which |-> w] : w \in PlateparOps}

\* raDecToCorrectedXY calls on two stars a few degrees from the centre of the
\* caller's field: the Julian date is a float or an array of one date, the
\* UT correction none, one day or minus two days.
SkyToPixelCalls ==
    {[op |-> "raDecToCorrectedXY", stage |-> "call", jd_shape |-> sh, jd |-> jd,
      RA_data |-> <<105*Deg, 92*Deg>>, dec_data |-> <<37*Deg, 42*Deg>>,
      UT_corr |-> ut] :
        sh \in {"float", "array"}, jd \in {2458000, 2458001}, ut \in {0, 24, -48}}

\* Levels d*10^k, whose logarithm the table gives: powers of ten and levels
\* between them.
Levels == {1, 3, 10, 100, 1000, 2000}

\* calculateMagnitudes calls: arrays of no to three levels, the slope -2.5
\* and the offsets 10 and 8.
MagnitudeCalls ==
    {[op |-> "calculateMagnitudes", stage |-> "call", level_data |-> l,
      mag_0 |-> -25, mag_lev |-> lev] :
        l \in UNION {[1 .. n -> Levels] : n \in 0 .. 3}, lev \in {8, 10}}

\* The stars of the photometric fits: <<log10 of the level, catalog
\* magnitude>>, the magnitude being -2.5*log10(level) + 5.0 for the first
\* four (levels 1, 3, 10 and 100) and 0.3 mag above, 0.5 mag below and 1 mag
\* above it for the last three (levels 100, 2000 and 10).
Stars ==
    {<<Log10Fx(1), 5*TrigScale>>,
     <<Log10Fx(3), RDiv(-25*Log10Fx(3), 10) + 5*TrigScale>>,
     <<Log10Fx(10), RDiv(-25*Log10Fx(10), 10) + 5*TrigScale>>,
     <<Log10Fx(100), RDiv(-25*Log10Fx(100), 10) + 5*TrigScale>>,
     <<Log10Fx(100), RDiv(-25*Log10Fx(100), 10) + 5*TrigScale + 3*OffsetStep>>,
     <<Log10Fx(2000), RDiv(-25*Log10Fx(2000), 10) + 5*TrigScale - 5*OffsetStep>>,
     <<Log10Fx(10), RDiv(-25*Log10Fx(10), 10) + 6*TrigScale>>}

\* photometryFit calls on one to three stars.
PhotometryCalls ==
    {[op |-> "photometryFit", stage |-> "call",
      logsum_px |-> [i \in 1 .. Len(l) |-> l[i][1]],
      catalog_mags |-> [i \in 1 .. Len(l) |-> l[i][2]]] :
        l \in UNION {[1 .. n -> Stars] : n \in 1 .. 3}}

\* The rotation of a platepar in a frame, to be compared with the rotation of
\* the same platepar one full turn of position angle further.
RotationWrapCalls ==
    {[op |-> "rotationWrap", stage |-> "call", frame |-> f] : f \in Frames}

\* The position angles of the platepars whose rotation is compared: the
\* start angles, a negative angle far from 0, and 3 degrees, where the field
\* of the camera pointing north lies level across azimuth 0 = 360.
WrapAngles == StartAngles \cup {-200*Deg*Fine, 3*Deg*Fine}

\* The files of a night directory: the name and the parts that the tests of
\* generateCalibrationReport look for in it.
NightFiles ==
    {[name |-> "CALSTARS_CA0001_20200812_031500.txt", parts |-> {"CALSTARS", ".txt"}],
     [name |-> "CALSTARS_CA0001_20200812_031500.bak", parts |-> {"CALSTARS"}],
     [name |-> "FTPdetectinfo_CA0001_20200812_031500.txt", parts |-> {".txt"}],
     [name |-> "platepar_cmn2010.cal", parts |-> {}]}

\* os.listdir of a night directory: up to three files, in any order.
Listings ==
    {l \in UNION {[1 .. n -> NightFiles] : n \in 0 .. 3} :
        \A i, j \in 1 .. Len(l) : l[i] = l[j] => i = j}

ReportCalls ==
    {[op |-> "generateCalibrationReport", stage |-> "call", listdir |-> l] :
        l \in Listings}

\* Line 47: the test of a file name.
IsCalstars(file) == "CALSTARS" \in file.parts /\ ".txt" \in file.parts

\* Lines 45-48: the loop over the listing from file i on; calstars_file is
\* the loop variable, and holds the file of the last turn when the loop ends.
RECURSIVE FindCalstars(_, _, _)
FindCalstars(listdir, i, calstars_file) ==
    IF i > Len(listdir) THEN calstars_file
    ELSE IF IsCalstars(listdir[i]) THEN listdir[i]
    ELSE FindCalstars(listdir, i + 1, listdir[i])

\* Lines 44-56: the function returns None at line 52, or goes on and reads
\* the star list from calstars_file.
generateCalibrationReport(listdir) ==
    IF FindCalstars(listdir, 1, NoObj) = NoObj
    THEN [returned |-> TRUE, calstars_file |-> NoObj]
    ELSE [returned |-> FALSE, calstars_file |-> FindCalstars(listdir, 1, NoObj)]

\* The frames of a meteor in a calibrated FTPdetectinfo file: right
\* ascension and declination in degrees, magnitude in tenths.
R90Frames ==
    {[ra |-> 100, dec |-> 40, mag |-> 25],
     [ra |-> 102, dec |-> 41, mag |-> -10],
     [ra |-> 104, dec |-> 42, mag |-> 5]}

\* The meteors handed to the conversion to R90: one to three frames, and a
\* number of segments up to the number of frames.
R90Calls ==
    {[op |-> "R90", stage |-> "call", n_segments |-> n, frames_data |-> f] :
        n \in 1 .. 3, f \in UNION {[1 .. k -> R90Frames] : k \in 1 .. 3}}

\* FTPdetectinfo2R90.py, lines 94-97: the turns of the loop over the frames
\* from frame i on.  Every turn unpacks the frame into ra, dec and mag, the
\* names that line 89 has bound to the first frame.
RECURSIVE R90Loop(_, _, _)
R90Loop(frames_data, i, names) ==
    IF i > Len(frames_data) THEN names
    ELSE R90Loop(frames_data, i + 1,
                 [ra |-> frames_data[i].ra, dec |-> frames_data[i].dec,
                  mag |-> frames_data[i].mag,
                  max_mag |-> IF frames_data[i].mag < names.max_mag
                              THEN frames_data[i].mag ELSE names.max_mag])

\* Lines 89-93: the names after the first frame is unpacked.
R90Names(frames_data) ==
    [ra |-> frames_data[1].ra, dec |-> frames_data[1].dec,
     mag |-> frames_data[1].mag, max_mag |-> frames_data[1].mag]

\* Lines 89-122: the row of a meteor from the names after the loop and from
\* frame n_segments - 1.
R90RowOf(names, frame2) ==
    [Mag |-> names.max_mag, Ra1 |-> names.ra, Dec1 |-> names.dec,
     Ra2 |-> frame2.ra, Dec2 |-> frame2.dec]

R90Row(n_segments, frames_data) ==
    R90RowOf(R90Loop(frames_data, 1, R90Names(frames_data)),
             frames_data[n_segments])

InitFn ==
    \/ InitWith({CamEast(90*Deg*Fine)}, AltAzCalls)
    \/ InitWith({CamEast(90*Deg*Fine)}, ResidualCalls)
    \/ InitWith({CamEast(90*Deg*Fine), CamZenith(90*Deg*Fine)}, RoundTripCalls)
    \/ InitWith(UNION {Cameras(pos) : pos \in WrapAngles}, RotationWrapCalls)
    \/ InitWith({CamWarped}, RectifyCalls)
    \/ InitWith({CamReversed}, DistortCalls)
    \/ InitWith(Cameras(90*Deg*Fine), CoefficientCalls)
    \/ InitWith({CamEast(90*Deg*Fine)}, SkyToPixelCalls)
    \/ InitWith({CamEast(90*Deg*Fine)}, MagnitudeCalls)
    \/ InitWith({CamEast(90*Deg*Fine)}, PhotometryCalls)
    \/ InitWith({CamEast(90*Deg*Fine), [CamEast(90*Deg*Fine) EXCEPT !.F_scale = 3]},
                RectifyDistortCalls)
    \/ InitWith({CamEast(90*Deg*Fine)}, ReportCalls)
    \/ InitWith({CamEast(90*Deg*Fine)},
                {c \in R90Calls : c.n_segments <= Len(c.frames_data)})

CallRaDec2AltAz ==
    /\ fn.op = "raDec2AltAz"
    /\ fn.stage = "call"
    /\ fn' = [op |-> "raDec2AltAz", stage |-> "ret", JD |-> fn.JD, lon |-> fn.lon,
              lat |-> fn.lat, ra |-> fn.ra, dec |-> fn.dec,
              ret |-> raDec2AltAz(fn.JD, fn.lon, fn.lat, fn.ra, fn.dec)]
    /\ UNCHANGED <<heap, solver, query, utils>>

\* _rotAngleResidual as the solvers build it: line 217 (295) reduces the
\* target, lines 226-229 (304-307) take the residual.
CallRotAngleResidual ==
    /\ fn.op = "rotAngleResidual"
    /\ fn.stage = "call"
    /\ fn' = [op |-> "rotAngleResidual", stage |-> "ret", target |-> fn.target,
              computed |-> fn.computed,
              ret |-> rotAngleResidual(PyMod(fn.target, Turn), fn.computed)]
    /\ UNCHANGED <<heap, solver, query, utils>>

\* raDecToCorrectedXYPP of the sky point that XY2CorrectedRADecPP returned,
\* at the same Julian date: [ok, x, y].
BackToImage(sky, platepar) ==
    IF ~sky.ok THEN [ok |-> FALSE, x |-> 0, y |-> 0]
    ELSE raDecToCorrectedXYPP(<<sky.ra>>, <<sky.dec>>, sky.JD, platepar)[1]

\* The pixel (x, y) of the caller's platepar taken to the sky and back.
CallRoundTrip ==
    /\ fn.op = "roundTrip"
    /\ fn.stage = "call"
    /\ fn' = [op |-> "roundTrip", stage |-> "ret", x |-> fn.x, y |-> fn.y,
              ret |-> BackToImage(
                        XY2CorrectedRADecPP(<<heap[CallerRef].JD>>, <<fn.x>>, <<fn.y>>,
                                            <<1>>, heap[CallerRef])[1],
                        heap[CallerRef])]
    /\ UNCHANGED <<heap, solver, query, utils>>

\* rotationWrtHorizon (165-200) or rotationWrtStandard (243-277) of the
\* caller's platepar, and of the platepar that differs from it only by one
\* full turn added to pos_angle_ref.
CallRotationWrap ==
    /\ fn.op = "rotationWrap"
    /\ fn.stage = "call"
    /\ fn' = [op |-> "rotationWrap", stage |-> "ret", frame |-> fn.frame,
              at |-> Rotation(fn.frame, heap[CallerRef]),
              shifted |-> Rotation(fn.frame,
                            [heap[CallerRef] EXCEPT !.pos_angle_ref = @ + FineTurn])]
    /\ UNCHANGED <<heap, solver, query, utils>>

\* applyFieldCorrection with the forward coefficients, resolution and scale
\* of the caller's platepar, as XY2altAz calls it (line 492).
CallApplyFieldCorrection ==
    /\ fn.op = "applyFieldCorrection"
    /\ fn.stage = "call"
    /\ fn' = [op |-> "applyFieldCorrection", stage |-> "ret", shape |-> fn.shape,
              X_data |-> fn.X_data, Y_data |-> fn.Y_data,
              ret |-> applyFieldCorrectionShaped(
                        heap[CallerRef].x_poly_fwd, heap[CallerRef].y_poly_fwd,
                        heap[CallerRef].X_res, heap[CallerRef].Y_res,
                        heap[CallerRef].F_scale, fn.shape, fn.X_data, fn.Y_data)]
    /\ UNCHANGED <<heap, solver, query, utils>>

\* Lines 843-876 of raDecToCorrectedXY at the plane coordinates (X1, Y1),
\* with the reverse coefficients and the resolution of the caller's platepar.
CallDistort ==
    /\ fn.op = "distort"
    /\ fn.stage = "call"
    /\ fn' = [op |-> "distort", stage |-> "ret", X1 |-> fn.X1, Y1 |-> fn.Y1,
              ret |-> ImageOfStandard(Deg*fn.X1, Deg*fn.Y1,
                        heap[CallerRef].X_res, heap[CallerRef].Y_res,
                        heap[CallerRef].x_poly_rev, heap[CallerRef].y_poly_rev)]
    /\ UNCHANGED <<heap, solver, query, utils>>

\* The distortion step at F_scale times the rectified point rect.
DistortOfRectified(rect, platepar) ==
    ImageOfStandard(platepar.F_scale*rect.X, platepar.F_scale*rect.Y,
                    platepar.X_res, platepar.Y_res,
                    platepar.x_poly_rev, platepar.y_poly_rev)

\* applyFieldCorrection (lines 399-442) of the pixel (x, y), then lines
\* 843-876 at F_scale times its result.
CallRectifyDistort ==
    /\ fn.op = "rectifyDistort"
    /\ fn.stage = "call"
    /\ fn' = [op |-> "rectifyDistort", stage |-> "ret", x |-> fn.x, y |-> fn.y,
              ret |-> DistortOfRectified(
                        applyFieldCorrectionPoint(
                            heap[CallerRef].x_poly_fwd, heap[CallerRef].y_poly_fwd,
                            heap[CallerRef].X_res, heap[CallerRef].Y_res,
                            heap[CallerRef].F_scale, fn.x, fn.y),
                        heap[CallerRef])]
    /\ UNCHANGED <<heap, solver, query, utils>>

\* The operation which on platepar: XY2CorrectedRADecPP of two pixels at the
\* reference date, raDecToCorrectedXYPP of two stars a few degrees from the
\* centre of the field at the reference date, or a field-geometry query.
PlateparResult(which, platepar) ==
    CASE which = "XY2CorrectedRADecPP" ->
            XY2CorrectedRADecPP(<<platepar.JD, platepar.JD>>, <<10, 50>>, <<5, 30>>,
                                <<1, 100>>, platepar)
      [] which = "rotationWrtHorizon" -> rotationWrtHorizon(platepar)
      [] which = "rotationWrtStandard" -> rotationWrtStandard(platepar)
      [] which = "computeFOVSize" -> computeFOVSize(platepar)
      [] which = "raDecToCorrectedXYPP" ->
            raDecToCorrectedXYPP(<<platepar.RA_d + 5*Deg, platepar.RA_d - 8*Deg>>,
                                 <<platepar.dec_d - 3*Deg, platepar.dec_d + 2*Deg>>,
                                 platepar.JD, platepar)

\* The platepar with other coefficients of the direction that which does not
\* take: other reverse coefficients for the operations from pixels to the
\* sky, other forward coefficients for raDecToCorrectedXYPP.
OtherCoefficients(which, platepar) ==
    IF which = "raDecToCorrectedXYPP"
    THEN [platepar EXCEPT !.x_poly_fwd = CamWarped.x_poly_fwd,
                          !.y_poly_fwd = CamWarped.y_poly_fwd]
    ELSE [platepar EXCEPT !.x_poly_rev = [Z12 EXCEPT ![1] = 2, ![2] = 1],
                          !.y_poly_rev = [Z12 EXCEPT ![1] = -3, ![3] = 1]]

\* One of the operations on the caller's platepar and on its counterpart
\* (lines 91-123, 165-200, 243-277, 729-753, 890-906).
CallWithCoefficients ==
    /\ fn.op = "coefficients"
    /\ fn.stage = "call"
    /\ fn' = [op |-> "coefficients", stage |-> "ret", which |-> fn.which,
              ret |-> PlateparResult(fn.which, heap[CallerRef]),
              other |-> PlateparResult(fn.which,
                            OtherCoefficients(fn.which, heap[CallerRef]))]
    /\ UNCHANGED <<heap, solver, query, utils>>

\* raDecToCorrectedXY (lines 758-793) with the caller's arrays and Julian
\* date and the fields of the caller's platepar: RA_data, dec_data and jd
\* are the caller's objects after the call, before their values at the call.
CallRaDecToCorrectedXY ==
    /\ fn.op = "raDecToCorrectedXY"
    /\ fn.stage = "call"
    /\ fn' = [op |-> "raDecToCorrectedXY", stage |-> "ret", jd_shape |-> fn.jd_shape,
              UT_corr |-> fn.UT_corr,
              before |-> [jd |-> fn.jd, RA_data |-> fn.RA_data, dec_data |-> fn.dec_data],
              jd |-> JdOfCaller(fn.jd_shape, fn.jd, fn.UT_corr),
              RA_data |-> fn.RA_data, dec_data |-> fn.dec_data,
              ret |-> raDecToCorrectedXY(fn.RA_data, fn.dec_data, fn.jd,
                        heap[CallerRef].lat, heap[CallerRef].lon,
                        heap[CallerRef].X_res, heap[CallerRef].Y_res,
                        heap[CallerRef].RA_d, heap[CallerRef].dec_d,
                        heap[CallerRef].JD, heap[CallerRef].pos_angle_ref,
                        heap[CallerRef].F_scale, heap[CallerRef].x_poly_rev,
                        heap[CallerRef].y_poly_rev, fn.UT_corr)]
    /\ UNCHANGED <<heap, solver, query, utils>>

\* calculateMagnitudes (lines 617-638).
CallCalculateMagnitudes ==
    /\ fn.op = "calculateMagnitudes"
    /\ fn.stage = "call"
    /\ fn' = [op |-> "calculateMagnitudes", stage |-> "ret",
              level_data |-> fn.level_data, mag_0 |-> fn.mag_0, mag_lev |-> fn.mag_lev,
              ret |-> calculateMagnitudes(fn.level_data, fn.mag_0, fn.mag_lev)]
    /\ UNCHANGED <<heap, solver, query, utils>>

\* photometryFit (lines 66-88).
CallPhotometryFit ==
    /\ fn.op = "photometryFit"
    /\ fn.stage = "call"
    /\ fn' = [op |-> "photometryFit", stage |-> "ret", logsum_px |-> fn.logsum_px,
              catalog_mags |-> fn.catalog_mags,
              ret |-> photometryFit(fn.logsum_px, fn.catalog_mags)]
    /\ UNCHANGED <<heap, solver, query, utils>>

CallGenerateCalibrationReport ==
    /\ fn.op = "generateCalibrationReport"
    /\ fn.stage = "call"
    /\ fn' = [op |-> "generateCalibrationReport", stage |-> "ret",
              listdir |-> fn.listdir,
              ret |-> generateCalibrationReport(fn.listdir)]
    /\ UNCHANGED <<heap, solver, query, utils>>

CallR90 ==
    /\ fn.op = "R90"
    /\ fn.stage = "call"
    /\ fn' = [op |-> "R90", stage |-> "ret", n_segments |-> fn.n_segments,
              frames_data |-> fn.frames_data,
              ret |-> R90Row(fn.n_segments, fn.frames_data)]
    /\ UNCHANGED <<heap, solver, query, utils>>

NextFn ==
    \/ CallRaDec2AltAz
    \/ CallRotAngleResidual
    \/ CallRoundTrip
    \/ CallRotationWrap
    \/ CallApplyFieldCorrection
    \/ CallDistort
    \/ CallRectifyDistort
    \/ CallWithCoefficients
    \/ CallRaDecToCorrectedXY
    \/ CallCalculateMagnitudes
    \/ CallPhotometryFit
    \/ CallGenerateCalibrationReport
    \/ CallR90

SpecFn == InitFn /\ [][NextFn]_vars

-----------------------------------------------------------------------------
(* applyAstrometryFTPdetectinfo on the FTPdetectinfo file of a night       *)

\* The largest number of successive calls on the file.
MaxCalls == 3

\* A measurement of a meteor on one frame as the detector writes it: the
\* celestial columns are still empty.
Measured(frame, X, Y, level) ==
    [frame |-> frame, X |-> X, Y |-> Y, level |-> level,
     ra |-> 0, dec |-> 0, az |-> 0, alt |-> 0, mag |-> 0]

\* The meteors of the detector's files: all levels positive, a level of 0 in
\* the middle, and negative and zero levels at both ends with one
\* measurement left.
Meteors ==
    {[ff_name |-> "FF_a", meteor_meas |-> <<Measured(1, 10, 5, 100),
                                            Measured(2, 12, 6, 2000),
                                            Measured(3, 14, 7, 30)>>],
     [ff_name |-> "FF_b", meteor_meas |-> <<Measured(4, 40, 20, 7),
                                            Measured(5, 41, 22, 0),
                                            Measured(6, 42, 24, 1)>>],
     [ff_name |-> "FF_c", meteor_meas |-> <<Measured(7, 50, 30, -3),
                                            Measured(8, 51, 30, 500),
                                            Measured(9, 52, 30, 0)>>]}

\* The FTPdetectinfo files of the model: no meteor, one or two.
MeteorFiles == UNION {[1 .. n -> Meteors] : n \in 0 .. 2}

\* A measurement is dropped unless its level is above 1.
LevelAboveOne(row) == row.level > 1

\* Line 959: level_data > 0.
PositiveLevel(row) == row.level > 0

\* Lines 955-959: the rows of the measurement array whose level is positive.
PositiveRows(meteor_meas) == SelectSeq(meteor_meas, PositiveLevel)

\* The columns of the rows (lines 962-965).
FramesOf(rows) == [i \in 1 .. Len(rows) |-> rows[i].frame]

XOf(rows) == [i \in 1 .. Len(rows) |-> rows[i].X]

YOf(rows) == [i \in 1 .. Len(rows) |-> rows[i].Y]

LevelsOf(rows) == [i \in 1 .. Len(rows) |-> rows[i].level]

\* Lines 968-974: the time of every frame.  The frames of an FF file span
\* ten seconds, so at the model's whole days every frame has the Julian date
\* of the platepar.
TimesOf(frames, platepar) == [i \in 1 .. Len(frames) |-> platepar.JD]

\* Lines 984-997 and 1006: row i of meteor_picks, from the columns that were
\* handed to XY2CorrectedRADecPP, the sky point it returned for row i and
\* raDec2AltAz of that point.
PickOf(frame, X, Y, level, sky, altaz) ==
    [frame |-> frame, X |-> X, Y |-> Y, level |-> level,
     ra |-> sky.ra, dec |-> sky.dec, az |-> altaz.azim, alt |-> altaz.elev,
     mag |-> sky.mag]

\* Lines 979-1007: the columns are converted and put side by side.
PicksOf(frames, X_data, Y_data, level_data, sky, platepar) ==
    [i \in 1 .. Len(sky) |->
        PickOf(frames[i], X_data[i], Y_data[i], level_data[i], sky[i],
               raDec2AltAz(sky[i].JD, platepar.lon, platepar.lat,
                           sky[i].ra, sky[i].dec))]

\* Lines 962-1007 for the rows left of one meteor.
PicksOfRows(rows, platepar) ==
    PicksOf(FramesOf(rows), XOf(rows), YOf(rows), LevelsOf(rows),
            XY2CorrectedRADecPP(TimesOf(FramesOf(rows), platepar), XOf(rows),
                                YOf(rows), LevelsOf(rows), platepar),
            platepar)

\* Lines 951-1010, the body of the loop: the entry of meteor_list.
CalibratedMeteor(meteor, platepar) ==
    [ff_name |-> meteor.ff_name,
     meteor_meas |-> PicksOfRows(PositiveRows(meteor.meteor_meas), platepar)]

\* The file is copied to the '_uncalibrated' name whether or not a file of
\* that name exists.
ApplyBackupAlways ==
    /\ apply.pc = "idle"
    /\ apply.calls < MaxCalls
    /\ disk' = [disk EXCEPT !.copy = disk.ftp]
    /\ apply' = [apply EXCEPT !.pc = "read"]
    /\ UNCHANGED <<core, flux, walk, logging>>

\* Lines 929-934: the file is copied to the '_uncalibrated' name unless a
\* file of that name exists.
ApplyBackup ==
    /\ apply.pc = "idle"
    /\ apply.calls < MaxCalls
    /\ disk' = IF disk.copy.exists THEN disk ELSE [disk EXCEPT !.copy = disk.ftp]
    /\ apply' = [apply EXCEPT !.pc = "read"]
    /\ UNCHANGED <<core, flux, walk, logging>>

\* Lines 937-1010: the file is read and every meteor is converted with the
\* caller's platepar.
ApplyConvert ==
    /\ apply.pc = "read"
    /\ apply' = [apply EXCEPT
            !.pc = "write",
            !.meteor_data = disk.ftp.meteors,
            !.meteor_list = [j \in 1 .. Len(disk.ftp.meteors) |->
                                CalibratedMeteor(disk.ftp.meteors[j], heap[CallerRef])]]
    /\ UNCHANGED <<core, disk, flux, walk, logging>>

\* Lines 1013-1023: writeFTPdetectinfo puts meteor_list in the place of the
\* file, under a new calibration string.
ApplyWrite ==
    /\ apply.pc = "write"
    /\ disk' = [disk EXCEPT !.ftp = FileOf(apply.calls + 1, apply.meteor_list)]
    /\ apply' = [apply EXCEPT !.pc = "idle", !.calls = @ + 1]
    /\ UNCHANGED <<core, flux, walk, logging>>

\* The detector has written the file; no backup exists yet.
InitApply ==
    /\ heap = [r \in CallerRef .. CallerRef + 2 |->
                  IF r = CallerRef THEN CamEast(90*Deg*Fine) ELSE NoObj]
    /\ solver = [t \in Threads |-> IdleSolver]
    /\ query = NoQuery
    /\ fn = NoFn
    /\ disk \in {[ftp |-> FileOf(0, m), copy |-> NoFile] : m \in MeteorFiles}
    /\ apply = NoApply
    /\ flux = NoFlux
    /\ walk = NoWalk
    /\ logging = NoLogging

NextApply == ApplyBackup \/ ApplyConvert \/ ApplyWrite

SpecApply == InitApply /\ [][NextApply]_vars

-----------------------------------------------------------------------------
(* The main loop of FluxAuto (Utils/FluxAuto.py, lines 504-559)            *)

\* Time is counted in ticks of one sleep of the waiting loop (line 553), and
\* from the t1 of the iteration under way: t1 is 0, flux.now is utcnow() and
\* flux.now + flux.zone is now(), the local time of line 547.

\* The longest run of fluxAutoRun, and the count of runs from which on the
\* model counts no further.
MaxDuration == 4

MaxRuns == 3

\* The values of --auto, in ticks, and the offsets of local time from UTC.
Hours == {1, 3}

Zones == {0, -5}

\* The command lines: --auto absent or given, --time absent or given in the
\* format of line 470.
CommandLines ==
    {[NoFlux EXCEPT !.auto_given = a, !.auto = h, !.time_given = t,
                    !.zone = z, !.pc = "top"] :
        a \in BOOLEAN, h \in Hours, t \in BOOLEAN, z \in Zones}

\* Lines 508-520: t1 is taken and fluxAutoRun is called.
FluxTop ==
    /\ flux.pc = "top"
    /\ flux' = [flux EXCEPT
            !.pc = "run",
            !.now = 0,
            !.previous_start_time = @ - flux.now,
            !.runs = IF @ < MaxRuns THEN @ + 1 ELSE @]
    /\ UNCHANGED <<core, disk, apply, walk, logging>>

\* Time passes while fluxAutoRun runs, and between the reading of the two
\* clocks in lines 537 and 547.
FluxTick ==
    /\ flux.pc \in {"run", "next"}
    /\ flux.now < MaxDuration
    /\ flux' = [flux EXCEPT !.now = @ + 1]
    /\ UNCHANGED <<core, disk, apply, walk, logging>>

\* fluxAutoRun has returned and the loop goes on whatever --time is.
FluxReturnsIgnoringTime ==
    /\ flux.pc = "run"
    /\ flux' = [flux EXCEPT
            !.previous_start_given = TRUE,
            !.previous_start_time = 0,
            !.wait_time = IF flux.auto_given THEN flux.auto - flux.now ELSE @,
            !.pc = IF ~flux.auto_given THEN "done"
                   ELSE IF flux.auto - flux.now < 0 THEN "top" ELSE "next"]
    /\ UNCHANGED <<core, disk, apply, walk, logging>>

\* Lines 529-543: fluxAutoRun has returned; the loop is left, or the time to
\* wait is computed and the next run starts at once when it is negative.
FluxReturns ==
    /\ flux.pc = "run"
    /\ flux' = [flux EXCEPT
            !.previous_start_given = TRUE,
            !.previous_start_time = 0,
            !.wait_time = IF ~flux.auto_given \/ flux.time_given THEN @
                          ELSE flux.auto - flux.now,
            !.pc = IF ~flux.auto_given \/ flux.time_given THEN "done"
                   ELSE IF flux.auto - flux.now < 0 THEN "top" ELSE "next"]
    /\ UNCHANGED <<core, disk, apply, walk, logging>>

\* The next run time is the local time, without the time to wait.
FluxNextNoWait ==
    /\ flux.pc = "next"
    /\ flux' = [flux EXCEPT !.next_run_time = flux.now + flux.zone,
                            !.pc = "wait"]
    /\ UNCHANGED <<core, disk, apply, walk, logging>>

\* Line 547: the next run time, in local time.
FluxNext ==
    /\ flux.pc = "next"
    /\ flux' = [flux EXCEPT
            !.next_run_time = (flux.now + flux.zone) + flux.wait_time,
            !.pc = "wait"]
    /\ UNCHANGED <<core, disk, apply, walk, logging>>

\* Line 550: the test of the waiting loop.
FluxWait ==
    /\ flux.pc = "wait"
    /\ flux' = [flux EXCEPT
            !.pc = IF flux.next_run_time > flux.now + flux.zone
                   THEN "sleep" ELSE "top"]
    /\ UNCHANGED <<core, disk, apply, walk, logging>>

\* Lines 551-553: time.sleep(2).
FluxSleep ==
    /\ flux.pc = "sleep"
    /\ flux' = [flux EXCEPT !.now = @ + 1, !.pc = "wait"]
    /\ UNCHANGED <<core, disk, apply, walk, logging>>

\* Line 503: the arguments are parsed and no run was made.
InitFlux ==
    /\ heap = [r \in CallerRef .. CallerRef + 2 |-> NoObj]
    /\ solver = [t \in Threads |-> IdleSolver]
    /\ query = NoQuery
    /\ fn = NoFn
    /\ disk = NoDisk
    /\ apply = NoApply
    /\ flux \in CommandLines
    /\ walk = NoWalk
    /\ logging = NoLogging

\* A statement of the loop.
FluxStep == FluxTop \/ FluxReturns \/ FluxNext \/ FluxWait \/ FluxSleep

NextFlux == FluxStep \/ FluxTick

SpecFlux == InitFlux /\ [][NextFlux]_vars

\* The interpreter goes on to the next statement, fluxAutoRun returns and
\* time.sleep returns.
SpecFluxLive == SpecFlux /\ WF_vars(FluxStep)

-----------------------------------------------------------------------------
(* The directory walk of fluxAutoRun (Utils/FluxAuto.py, lines 283-351)    *)

\* Solar longitudes are in whole degrees and times in whole days: a
\* datetime is a year and a day of that year.
Day(dt) == dt.year * 365 + dt.doy

\* jd2SolLonSteyaert(datetime2JD(dt)) of line 319, in degrees: the Sun is at
\* longitude 0 on day 80 of a year.
SolLon(dt) == (((dt.doy - 80) * 360) \div 365) % 360

\* datetime.strptime of line 308 on the second and third part of a name.
strptime(date, time) ==
    CASE date = "20200812" /\ time = "031500" -> Returned([year |-> 2020, doy |-> 224])
      [] date = "20190812" /\ time = "031500" -> Returned([year |-> 2019, doy |-> 224])
      [] date = "20200822" /\ time = "020000" -> Returned([year |-> 2020, doy |-> 234])
      [] date = "20200823" /\ time = "020000" -> Returned([year |-> 2020, doy |-> 235])
      [] date = "20200320" /\ time = "200000" -> Returned([year |-> 2020, doy |-> 79])
      [] date = "19700101" /\ time = "000000" -> Returned([year |-> 1970, doy |-> 0])
      [] OTHER -> Raised

\* config.platepar_name.
platepar_name == "platepar_cmn2010.cal"

\* RMS.Math.isAngleBetween as line 330 calls it, in degrees: ang is on the
\* arc that runs from left to right.
isAngleBetween(left, ang, right) ==
    (IF ang - left < 0 THEN ang - left + 360 ELSE ang - left)
        < (IF right - left < 0 THEN right - left + 360 ELSE right - left)

\* The showers that are active at the reference time, with the activity of
\* the reference year (2020) that lines 270-281 have computed: one in
\* August and one over the longitude 0.
active_showers ==
    <<[name |-> "PER", lasun_beg |-> 120, lasun_end |-> 150,
       dt_beg_ref_year |-> 2020 * 365 + 202, dt_end_ref_year |-> 2020 * 365 + 232],
      [name |-> "EQX", lasun_beg |-> 355, lasun_end |-> 5,
       dt_beg_ref_year |-> 2020 * 365 + 75, dt_end_ref_year |-> 2020 * 365 + 85]>>

ActiveNames == {active_showers[i].name : i \in 1 .. Len(active_showers)}

\* The directories under the data path: the path, its length, the parts of
\* its base name between the '_' and the names of its files.
NightDir(dir_path, len, dir_split, files) ==
    [dir_path |-> dir_path, len |-> len, dir_split |-> dir_split, files |-> files]

Dirs ==
    {NightDir("/data/CA0001_20200812_031500_123456", 35,
              <<"CA0001", "20200812", "031500", "123456">>,
              {platepar_name, "FTPdetectinfo.txt"}),
     NightDir("/data/CA0001_20190812_031500_123456", 35,
              <<"CA0001", "20190812", "031500", "123456">>, {platepar_name}),
     NightDir("/data/CA0002_20200812_031500_123456", 35,
              <<"CA0002", "20200812", "031500", "123456">>, {"FTPdetectinfo.txt"}),
     NightDir("/data/CA0001_20200822_020000_000000", 35,
              <<"CA0001", "20200822", "020000", "000000">>, {platepar_name}),
     NightDir("/data/CA0001_20200823_020000_000000", 35,
              <<"CA0001", "20200823", "020000", "000000">>, {platepar_name}),
     NightDir("/data/CA0001_20200320_200000_000000", 35,
              <<"CA0001", "20200320", "200000", "000000">>, {platepar_name}),
     NightDir("/data/CA0001_19700101_000000_000000", 35,
              <<"CA0001", "19700101", "000000", "000000">>, {platepar_name}),
     NightDir("/data/CA0001_processed_plots_2020", 33,
              <<"CA0001", "processed", "plots", "2020">>, {platepar_name}),
     NightDir("/data/CA0001/plots", 18, <<"plots">>, {platepar_name}),
     NightDir("/d/A_20200812_031500", 20,
              <<"A", "20200812", "031500">>, {platepar_name})}

\* The longest walk.
MaxDirs == 3

\* walkDirsToDepth may yield a directory more than once.
Walks == UNION {[1 .. n -> Dirs] : n \in 0 .. MaxDirs}

\* Lines 300-316: the time stamp of a directory, or no time stamp when the
\* directory is passed over.
DirTime(dir) ==
    IF dir.len < 23 THEN Raised
    ELSE IF Len(dir.dir_split) < 3 THEN Raised
    ELSE IF ~strptime(dir.dir_split[2], dir.dir_split[3]).ok THEN Raised
    ELSE IF strptime(dir.dir_split[2], dir.dir_split[3]).val.year < 2018 THEN Raised
    ELSE strptime(dir.dir_split[2], dir.dir_split[3])

\* Lines 325-327: the key of a shower is added to a dictionary.
WithKey(dict, name) ==
    [k \in DOMAIN dict \cup {name} |-> IF k \in DOMAIN dict THEN dict[k] ELSE <<>>]

\* The entry is appended whether or not the list has it.
AppendAgain(list, entry) == Append(list, entry)

\* Lines 340-341: the entry is appended unless the list has it.
AppendNew(list, entry) ==
    IF \E i \in 1 .. Len(list) : list[i] = entry THEN list ELSE Append(list, entry)

\* Any directory of the model has the platepar.
AnyFiles(dir) == TRUE

\* Lines 333-334: the directory has a file of the platepar's name.
HasPlatepar(dir) == \E file_name \in dir.files : file_name = platepar_name

\* Lines 330-334: the directory is taken for the shower.
Taken(shower, dir, dir_dt) ==
    /\ isAngleBetween(shower.lasun_beg - 1, SolLon(dir_dt), shower.lasun_end + 1)
    /\ HasPlatepar(dir)

\* Lines 349-350: the time stamp is within a day of the activity of the
\* reference year.
InRefYear(shower, dir_dt) ==
    /\ Day(dir_dt) >= shower.dt_beg_ref_year - 1
    /\ Day(dir_dt) <= shower.dt_end_ref_year + 1

\* Lines 325-351, the body of the loop over the showers, on the two
\* dictionaries.
WalkShower(dicts, shower, dir, dir_dt, entry) ==
    [shower_dirs |->
        IF Taken(shower, dir, dir_dt)
        THEN [WithKey(dicts.shower_dirs, shower.name) EXCEPT
                 ![shower.name] = AppendNew(@, entry)]
        ELSE WithKey(dicts.shower_dirs, shower.name),
     shower_dirs_ref_year |->
        IF /\ Taken(shower, dir, dir_dt)
           /\ AppendNew(WithKey(dicts.shower_dirs, shower.name)[shower.name], entry)
                 # WithKey(dicts.shower_dirs, shower.name)[shower.name]
           /\ InRefYear(shower, dir_dt)
        THEN [WithKey(dicts.shower_dirs_ref_year, shower.name) EXCEPT
                 ![shower.name] = Append(@, entry)]
        ELSE WithKey(dicts.shower_dirs_ref_year, shower.name)]

\* Lines 322-351: the loop over the showers, from shower i on.
RECURSIVE WalkShowers(_, _, _, _)
WalkShowers(dicts, i, dir, dir_dt) ==
    IF i > Len(active_showers) THEN dicts
    ELSE WalkShowers(WalkShower(dicts, active_showers[i], dir, dir_dt,
                                [dir_path |-> dir.dir_path, dir_dt |-> dir_dt]),
                     i + 1, dir, dir_dt)

\* Lines 293-351: the dictionaries after the directory.
WalkedDir(dicts, dir) ==
    IF DirTime(dir).ok THEN WalkShowers(dicts, 1, dir, DirTime(dir).val) ELSE dicts

\* Lines 288-351: the next directory of the walk is inspected.
WalkDir ==
    /\ walk.pc = "walk"
    /\ walk.todo # <<>>
    /\ walk' = [walk EXCEPT
            !.todo = Tail(@),
            !.inspected = Append(@, Head(walk.todo)),
            !.shower_dirs =
                WalkedDir([shower_dirs |-> walk.shower_dirs,
                           shower_dirs_ref_year |-> walk.shower_dirs_ref_year],
                          Head(walk.todo)).shower_dirs,
            !.shower_dirs_ref_year =
                WalkedDir([shower_dirs |-> walk.shower_dirs,
                           shower_dirs_ref_year |-> walk.shower_dirs_ref_year],
                          Head(walk.todo)).shower_dirs_ref_year]
    /\ UNCHANGED <<core, disk, apply, flux, logging>>

\* Line 288: walkDirsToDepth has no further directory.
WalkEnd ==
    /\ walk.pc = "walk"
    /\ walk.todo = <<>>
    /\ walk' = [walk EXCEPT !.pc = "done"]
    /\ UNCHANGED <<core, disk, apply, flux, logging>>

\* Lines 286-287: the dictionaries are empty and the walk begins.
InitWalk ==
    /\ heap = [r \in CallerRef .. CallerRef + 2 |-> NoObj]
    /\ solver = [t \in Threads |-> IdleSolver]
    /\ query = NoQuery
    /\ fn = NoFn
    /\ disk = NoDisk
    /\ apply = NoApply
    /\ flux = NoFlux
    /\ walk \in {[NoWalk EXCEPT !.pc = "walk", !.todo = w] : w \in Walks}
    /\ logging = NoLogging

NextWalk == WalkDir \/ WalkEnd

SpecWalk == InitWalk /\ [][NextWalk]_vars

-----------------------------------------------------------------------------
(* The Logger class (RMS/Logger.py)                                        *)

\* The largest number of calls on the class and its object.
MaxOps == 8

LoggerOps ==
    Len(logging.returned) + Len(logging.got)
        + Cardinality({i \in 1 .. Len(logging.handlers) :
                          logging.handlers[i].class = "StreamHandler"})

\* A Logger object: object n of the class.
LoggerObject(n) == [none |-> FALSE, id |-> n]

\* Every construction makes an object.
LoggerNewEach ==
    /\ LoggerOps < MaxOps
    /\ logging' = [logging EXCEPT
            !.objects = @ + 1,
            !._instance = LoggerObject(logging.objects + 1),
            !.returned = Append(@, LoggerObject(logging.objects + 1))]
    /\ UNCHANGED <<core, disk, apply, flux, walk>>

\* Lines 37-41, Logger(): an object is made when the class has none, and
\* the object of the class is returned.
LoggerNew ==
    /\ LoggerOps < MaxOps
    /\ logging' =
          IF logging._instance = NoObj
          THEN [logging EXCEPT
                   !.objects = @ + 1,
                   !._instance = LoggerObject(logging.objects + 1),
                   !.returned = Append(@, LoggerObject(logging.objects + 1))]
          ELSE [logging EXCEPT !.returned = Append(@, logging._instance)]
    /\ UNCHANGED <<core, disk, apply, flux, walk>>

\* logging.Logger.addHandler: a handler is added unless the logger has it.
addHandler(handlers, hdlr) ==
    IF \E i \in 1 .. Len(handlers) : handlers[i] = hdlr THEN handlers
    ELSE Append(handlers, hdlr)

\* Lines 82-93: a new stream handler to stdout and a new socket handler are
\* made and added to the root logger; n handlers were made before.
HandlersAdded(handlers, n) ==
    addHandler(addHandler(handlers,
                          [class |-> "StreamHandler", stream |-> "stdout", id |-> n + 1]),
               [class |-> "SocketHandler", stream |-> "localhost:9020", id |-> n + 2])

\* Lines 43-98, initLogging on the object of the class.
InitLogging ==
    /\ LoggerOps < MaxOps
    /\ logging._instance # NoObj
    /\ logging' = [logging EXCEPT
            !.level = "DEBUG",
            !.handlers = HandlersAdded(@, Len(logging.handlers)),
            !._initialized = TRUE]
    /\ UNCHANGED <<core, disk, apply, flux, walk>>

\* Lines 100-110, getLogger on the object of the class: logging.getLogger()
\* without a name is the root logger.
GetLogger ==
    /\ LoggerOps < MaxOps
    /\ logging._instance # NoObj
    /\ logging' = [logging EXCEPT
            !.got = Append(@, [logger |-> "root",
                               _initialized |-> logging._initialized])]
    /\ UNCHANGED <<core, disk, apply, flux, walk>>

InitLogger ==
    /\ heap = [r \in CallerRef .. CallerRef + 2 |-> NoObj]
    /\ solver = [t \in Threads |-> IdleSolver]
    /\ query = NoQuery
    /\ fn = NoFn
    /\ disk = NoDisk
    /\ apply = NoApply
    /\ flux = NoFlux
    /\ walk = NoWalk
    /\ logging = NoLogging

NextLogger == LoggerNew \/ InitLogging \/ GetLogger

SpecLogger == InitLogger /\ [][NextLogger]_vars

-----------------------------------------------------------------------------
(* Properties                                                              *)

\* C1: no operation on a platepar changes a field of the caller's platepar:
\* after every step of a query or of a position-angle solver the caller's
\* object has the value it had before, pos_angle_ref included; the solver's
\* candidate position angles go to its copy.
CallerModelUnchanged == [][heap'[CallerRef] = heap[CallerRef]]_vars

\* A solver call has returned, its copy holds a position angle other than the
\* caller's, and the caller has asked a query since.
CallerModelUnchangedWitness ==
    /\ solver[1].pc = "done"
    /\ heap[CopyRef(1)].pos_angle_ref # heap[CallerRef].pos_angle_ref
    /\ query.op = "computeFOVSize"

\* The residual that is left at the position angle p a solver returned: the
\* rotation of the caller's platepar with pos_angle_ref = p against the
\* target.
ResidualOf(rot_angle, rot) ==
    IF rot.ok THEN rotAngleResidual(rot_angle, rot.val) ELSE HalfTurn

ResidualAtReturn(s, platepar) ==
    ResidualOf(s.rot_angle, Rotation(s.frame, [platepar EXCEPT !.pos_angle_ref = s.res]))

\* A quarter of a degree: well above the two decimals of the angles, far
\* below any residual of a search that went astray.
SolverTol == Deg \div 4

\* C2: solver self-consistency: the rotation of the platepar with the
\* returned position angle equals the target rotation modulo 360 within the
\* minimizer's tolerance, for both frames.
SolverSelfConsistent ==
    \A t \in Threads :
        solver[t].pc = "done" => ResidualAtReturn(solver[t], heap[CallerRef]) <= SolverTol

\* The image coordinates a round trip returned are within half a pixel of
\* the pixel it started from.
WithinHalfPixel(call) ==
    /\ call.ret.ok
    /\ Abs(call.ret.x - Deg*call.x) <= Deg \div 2
    /\ Abs(call.ret.y - Deg*call.y) <= Deg \div 2

\* C3: round trip: a pixel inside the image taken to RA/Dec by
\* XY2CorrectedRADecPP and back by raDecToCorrectedXYPP at the same Julian
\* date is reproduced within 0.5 px.
RoundTripWithinHalfPixel ==
    (fn.op = "roundTrip" /\ fn.stage = "ret") => WithinHalfPixel(fn)

\* C4: raDec2AltAz returns an azimuth in [0, 360) and an altitude in
\* [-90, 90] for every input, Dec = +-90 and the zenith included.
AltAzInRange ==
    (fn.op = "raDec2AltAz" /\ fn.stage = "ret") =>
        /\ 0 <= fn.ret.azim /\ fn.ret.azim < Turn
        /\ -Quarter <= fn.ret.elev /\ fn.ret.elev <= Quarter

\* C5: the value raDec2AltAz hands to arcsine is the sine of the elevation
\* clamped to [-1, 1]: the sine itself within the interval, 1 above it and
\* -1 below it.
SineOfElevationClamped ==
    (fn.op = "raDec2AltAz" /\ fn.stage = "ret") =>
        fn.ret.sin_arg = Max(-TrigScale, Min(TrigScale, fn.ret.sin_elev))

\* C6 as the specification states it: the hour angle is wrapped to
\* (-180, 180] degrees, 180 included and -180 left out.
HourAngleHalfOpenAbove ==
    (fn.op = "raDec2AltAz" /\ fn.stage = "ret") =>
        -HalfTurn < fn.ret.ha /\ fn.ret.ha <= HalfTurn

\* C6, as the program has it: the hour angle used in the sines and cosines
\* is LST - RA wrapped by (ha + 180) mod 360 - 180: it lies in [-180, 180]
\* degrees, differs from the raw difference by a whole number of turns, and
\* a raw difference congruent to 180 maps to -180, not to +180.
HourAngleHalfOpenBelow ==
    (fn.op = "raDec2AltAz" /\ fn.stage = "ret") =>
        /\ -HalfTurn <= fn.ret.ha /\ fn.ret.ha <= HalfTurn
        /\ (fn.ret.ha - fn.ret.ha_raw) % Turn = 0
        /\ (fn.ret.ha_raw % Turn = HalfTurn => fn.ret.ha = -HalfTurn)

\* A call whose raw hour angle is 180 degrees plus a whole number of turns.
HourAngleHalfOpenBelowWitness ==
    /\ fn.op = "raDec2AltAz" /\ fn.stage = "ret"
    /\ fn.ret.ha_raw % Turn = HalfTurn
    /\ fn.ret.ha_raw # -HalfTurn
    /\ fn.ret.ha = -HalfTurn

\* The shortest circular distance of two angles: min(d, 360 - d) with
\* d = |a mod 360 - b mod 360|.
CircularDistance(a, b) ==
    Min(Abs((a % Turn) - (b % Turn)), Turn - Abs((a % Turn) - (b % Turn)))

\* C7: the solver's residual is the shortest circular distance of the target
\* and the computed rotation, lies in [0, 180], and is zero exactly when the
\* two coincide modulo 360.
ResidualIsCircularDistance ==
    (fn.op = "rotAngleResidual" /\ fn.stage = "ret") =>
        /\ fn.ret = CircularDistance(fn.target, fn.computed)
        /\ 0 <= fn.ret /\ fn.ret <= HalfTurn
        /\ (fn.ret = 0 <=> (fn.target - fn.computed) % Turn = 0)

\* A residual across the 0 = 360 seam: a negative target and a computed
\* rotation whose reductions are more than 180 degrees apart, though the
\* two angles are next to each other on the circle.
ResidualIsCircularDistanceWitness ==
    /\ fn.op = "rotAngleResidual" /\ fn.stage = "ret"
    /\ fn.target < 0
    /\ Abs((fn.target % Turn) - (fn.computed % Turn)) > HalfTurn
    /\ fn.ret = 1

\* C8: the position angle p a solver returns is the minimizer reduced
\* modulo 360: 0 <= p < 360 for every platepar and target, also when the
\* minimizer is negative or above 360.
ReturnedAngleInRange ==
    \A t \in Threads :
        solver[t].pc = "done" => (0 <= solver[t].res /\ solver[t].res < FineTurn)

\* C9: a solver call never ends in an error: every call that has started
\* goes on to return a value.
SolverNeverRaises == \A t \in Threads : solver[t].pc # "error"

\* What a finished call gave its caller.
Outcome(s) == IF s.pc = "done" THEN Returned(s.res) ELSE Raised

\* C10: two solver calls that run at once on one caller's platepar do not
\* interfere: whenever a call evaluates the rotation its platepar holds the
\* candidate the call itself stored, and when both calls have ended each has
\* the outcome it has when it runs alone.
ConcurrentCallsIndependent ==
    /\ \A t \in Threads :
          solver[t].pc = "rot" =>
              heap[solver[t].platepar].pos_angle_ref = solver[t].nm.cand
    /\ (\A t \in Threads : solver[t].pc \in {"done", "error"}) =>
          \A t \in Threads :
              Outcome(solver[t]) =
                  ToPosAngle(solver[t].frame, heap[CallerRef], solver[t].rot_angle)

\* Both calls have returned, with different position angles.
ConcurrentCallsIndependentWitness ==
    /\ solver[1].pc = "done" /\ solver[2].pc = "done"
    /\ solver[1].res # solver[2].res
    /\ heap[CopyRef(1)].pos_angle_ref # heap[CopyRef(2)].pos_angle_ref

\* C11: rotationWrtHorizon and rotationWrtStandard have the same outcome for
\* a platepar with position angle p and for the same platepar with position
\* angle p + 360: both raise or both return, and the returned values are
\* equal modulo 360 degrees.
RotationWrapInvariant ==
    (fn.op = "rotationWrap" /\ fn.stage = "ret") =>
        /\ fn.at.ok = fn.shifted.ok
        /\ fn.at.ok => (fn.at.val - fn.shifted.val) % Turn = 0

\* A rotation away from 0 was returned for a platepar at 340 degrees and for
\* the same platepar at 700 degrees.
RotationWrapInvariantWitness ==
    /\ fn.op = "rotationWrap"
    /\ fn.stage = "ret"
    /\ heap[CallerRef].pos_angle_ref = 340*Deg*Fine
    /\ fn.at.ok
    /\ fn.shifted.ok
    /\ fn.at.val # 0

\* C12: rotationWrtHorizon returns r with -180 < r <= 180 (never -180) and
\* rotationWrtStandard returns s with 0 <= s < 360 degrees.
RotationInRange ==
    (fn.op = "rotationWrap" /\ fn.stage = "ret" /\ fn.at.ok) =>
        IF fn.frame = "horizon"
        THEN -HalfTurn < fn.at.val /\ fn.at.val <= HalfTurn
        ELSE 0 <= fn.at.val /\ fn.at.val < Turn

\* The twelve terms of a distortion polynomial with coefficients c at the
\* centred point (X, Y), the last two coefficients on the products R11, R12.
TwelveTerms(c, X, Y, R11, R12) ==
    c[1] + c[2]*X + c[3]*Y + c[4]*X*X + c[5]*X*Y + c[6]*Y*Y + c[7]*X*X*X
    + c[8]*X*X*Y + c[9]*X*Y*Y + c[10]*Y*Y*Y + c[11]*R11 + c[12]*R12

\* Point i of a returned applyFieldCorrection call is ((X - X_res/2) + dX)
\* and ((Y - Y_res/2) + dY) over F_scale, where dX has its radial
\* coefficients 10, 11 on X*r, Y*r and dY has them on Y*r, X*r when swapped
\* and on X*r, Y*r otherwise.
RectifiedAs(i, swapped) ==
    LET platepar == heap[CallerRef]
        X == fn.X_data[i] - platepar.X_res \div 2
        Y == fn.Y_data[i] - platepar.Y_res \div 2
        r == ISqrt(X*X + Y*Y)
    IN /\ fn.ret.val[i].X =
            RDiv(Deg*(X + TwelveTerms(platepar.x_poly_fwd, X, Y, X*r, Y*r)),
                 platepar.F_scale)
       /\ fn.ret.val[i].Y =
            RDiv(Deg*(Y + TwelveTerms(platepar.y_poly_fwd, X, Y,
                                      IF swapped THEN Y*r ELSE X*r,
                                      IF swapped THEN X*r ELSE Y*r)),
                 platepar.F_scale)

RectifyReturned ==
    fn.op = "applyFieldCorrection" /\ fn.stage = "ret" /\ fn.ret.ok

\* C13 as stated: applyFieldCorrection returns ((X - X_res/2) + dX)/F_scale
\* and ((Y - Y_res/2) + dY)/F_scale with the twelve terms in the same order
\* on both axes, coefficient 10 on X*r and coefficient 11 on Y*r.
RectifySameOrder ==
    RectifyReturned =>
        \A i \in 1 .. Len(fn.X_data) : RectifiedAs(i, FALSE)

\* C13 amended: the same formula, but in the Y polynomial coefficient 10
\* multiplies Y*r and coefficient 11 multiplies X*r; the X polynomial has
\* coefficient 10 on X*r and coefficient 11 on Y*r.
RectifySwappedRadial ==
    RectifyReturned =>
        \A i \in 1 .. Len(fn.X_data) : RectifiedAs(i, TRUE)

\* Three points were rectified, the first one off the diagonal and off the
\* axes of the centred image, with a platepar whose radial coefficients of
\* the Y polynomial differ.
RectifySwappedRadialWitness ==
    /\ RectifyReturned
    /\ Len(fn.X_data) = 3
    /\ fn.X_data[1] = 2
    /\ fn.Y_data[1] = 5
    /\ heap[CallerRef].y_poly_fwd[11] # heap[CallerRef].y_poly_fwd[12]
    /\ heap[CallerRef].F_scale = 3

\* The distortion step returns X1 - dX + x_res/2 and Y1 - dY + y_res/2 with
\* the reverse polynomials at (X1, Y1): dX has its radial coefficients on
\* X1*r, Y1*r, dY has them on Y1*r, X1*r.
DistortFormula ==
    (fn.op = "distort" /\ fn.stage = "ret") =>
        LET platepar == heap[CallerRef]
            r == ISqrt(fn.X1*fn.X1 + fn.Y1*fn.Y1)
        IN /\ fn.ret.x =
                Deg*(fn.X1 - TwelveTerms(platepar.x_poly_rev, fn.X1, fn.Y1,
                                         fn.X1*r, fn.Y1*r)
                     + platepar.X_res \div 2)
           /\ fn.ret.y =
                Deg*(fn.Y1 - TwelveTerms(platepar.y_poly_rev, fn.X1, fn.Y1,
                                         fn.Y1*r, fn.X1*r)
                     + platepar.Y_res \div 2)

CoefficientSetsNotSwapped ==
    (fn.op = "coefficients" /\ fn.stage = "ret") => fn.ret = fn.other

\* Two pixels were taken to the sky with a platepar and with the platepar
\* that has other reverse coefficients, and both points came out.
CoefficientSetsNotSwappedWitness ==
    /\ fn.op = "coefficients"
    /\ fn.stage = "ret"
    /\ fn.which = "XY2CorrectedRADecPP"
    /\ fn.ret[1].ok
    /\ fn.ret[2].ok
    /\ fn.ret[1].ra # fn.ret[2].ra

\* The result of rectifying the point (X, Y) alone, as an array of one point,
\* with the caller's platepar.
RectifiedAlone(X, Y) ==
    applyFieldCorrection(heap[CallerRef].x_poly_fwd, heap[CallerRef].y_poly_fwd,
                         heap[CallerRef].X_res, heap[CallerRef].Y_res,
                         heap[CallerRef].F_scale, <<X>>, <<Y>>)[1]

\* C16: applyFieldCorrection returns for arrays of N points N results, result
\* i being that of point i alone, and for a scalar X, Y it returns that
\* single-point result without raising.
RectifyScalarAndArray ==
    (fn.op = "applyFieldCorrection" /\ fn.stage = "ret") =>
        /\ fn.ret.ok
        /\ Len(fn.ret.val) = Len(fn.X_data)
        /\ \A i \in 1 .. Len(fn.X_data) :
              fn.ret.val[i] = RectifiedAlone(fn.X_data[i], fn.Y_data[i])

\* C17: after raDecToCorrectedXY returns, the caller's RA array, Dec array
\* and Julian date hold the values they held before the call, whatever the
\* UT correction and whether the date is a float or an array.
SkyToPixelKeepsArguments ==
    (fn.op = "raDecToCorrectedXY" /\ fn.stage = "ret") =>
        /\ fn.RA_data = fn.before.RA_data
        /\ fn.dec_data = fn.before.dec_data
        /\ fn.jd = fn.before.jd

\* 10^k for the decades of the levels.
TenTo(k) == CASE k = 0 -> 1 [] k = 1 -> 10 [] k = 2 -> 100 [] k = 3 -> 1000 [] k = 4 -> 10000

\* mag_0*k + mag_lev in 1/TrigScale magnitudes (mag_0 in tenths).
MagnitudeAtDecade(k, mag_0, mag_lev) == mag_0*k*(TrigScale \div 10) + mag_lev*TrigScale

\* The magnitude mag of a level is mag_0*k + mag_lev when the level is 10^k,
\* and for a level between 10^k and 10^(k+1) it lies between the magnitudes
\* of the two (the slope mag_0 is negative).
MagnitudeOfLevel(mag, level, mag_0, mag_lev) ==
    \A k \in 0 .. 3 :
        (TenTo(k) <= level /\ level < TenTo(k + 1)) =>
            /\ level = TenTo(k) => mag = MagnitudeAtDecade(k, mag_0, mag_lev)
            /\ mag <= MagnitudeAtDecade(k, mag_0, mag_lev)
            /\ mag > MagnitudeAtDecade(k + 1, mag_0, mag_lev)

\* C18: calculateMagnitudes returns an array as long as level_data whose
\* element i is mag_0*log10(level_data[i]) + mag_lev, the value the function
\* returns for that level alone; for a level 10^k it is mag_0*k + mag_lev.
MagnitudesElementwise ==
    (fn.op = "calculateMagnitudes" /\ fn.stage = "ret") =>
        /\ Len(fn.ret) = Len(fn.level_data)
        /\ \A i \in 1 .. Len(fn.level_data) :
              /\ fn.ret[i] =
                    calculateMagnitudes(<<fn.level_data[i]>>, fn.mag_0, fn.mag_lev)[1]
              /\ MagnitudeOfLevel(fn.ret[i], fn.level_data[i], fn.mag_0, fn.mag_lev)

\* The magnitudes of three different levels were returned, the second one
\* 10^2: 5 magnitudes below the offset.
MagnitudesElementwiseWitness ==
    /\ fn.op = "calculateMagnitudes"
    /\ fn.stage = "ret"
    /\ fn.level_data = <<3, 100, 2000>>
    /\ fn.ret[2] = (fn.mag_lev - 5)*TrigScale

\* C19: photometryFit returns one residual per star, residual i being
\* catalog_mags[i] - (-2.5*logsum_px[i] + offset) for the returned offset,
\* and the returned stddev is the standard deviation of that residual vector.
PhotometryFitConsistent ==
    (fn.op = "photometryFit" /\ fn.stage = "ret") =>
        /\ Len(fn.ret.fit_resids) = Len(fn.logsum_px)
        /\ \A i \in 1 .. Len(fn.logsum_px) :
              fn.ret.fit_resids[i] =
                fn.catalog_mags[i]
                - (RDiv(-25*fn.logsum_px[i], 10) + fn.ret.photom_offset)
        /\ fn.ret.fit_stddev = StdDev(fn.ret.fit_resids)

\* A fit of three stars that lie on no common line of slope -2.5 returned,
\* with residuals that differ.
PhotometryFitConsistentWitness ==
    /\ fn.op = "photometryFit"
    /\ fn.stage = "ret"
    /\ Len(fn.logsum_px) = 3
    /\ fn.ret.fit_stddev > 0
    /\ fn.ret.fit_resids[1] # fn.ret.fit_resids[2]

\* Every catalog magnitude of the call is -2.5*logsum_px + 5.0 exactly.
ExactPhotometry ==
    \A i \in 1 .. Len(fn.logsum_px) :
        fn.catalog_mags[i] = RDiv(-25*fn.logsum_px[i], 10) + 5*TrigScale

\* C20: when every catalog magnitude is -2.5*log10(level) + 5.0 exactly,
\* photometryFit returns the offset 5.0, the standard deviation 0 and
\* residuals that are all 0.
PhotometryFitExact ==
    (fn.op = "photometryFit" /\ fn.stage = "ret" /\ ExactPhotometry) =>
        /\ fn.ret.photom_offset = 5*TrigScale
        /\ fn.ret.fit_stddev = 0
        /\ \A i \in 1 .. Len(fn.logsum_px) : fn.ret.fit_resids[i] = 0

\* A fit of three stars of different levels, all on the line of offset 5.0,
\* returned.
PhotometryFitExactWitness ==
    /\ fn.op = "photometryFit"
    /\ fn.stage = "ret"
    /\ ExactPhotometry
    /\ Len(fn.logsum_px) = 3
    /\ fn.logsum_px[1] # fn.logsum_px[2]
    /\ fn.logsum_px[2] # fn.logsum_px[3]
    /\ fn.logsum_px[1] # fn.logsum_px[3]

\* The rows of the measurement rows whose level is positive, from row i on
\* and in their order, have the frames, X, Y and levels of picks.
RECURSIVE SameMeasurements(_, _, _)
SameMeasurements(rows, i, picks) ==
    IF i > Len(rows) THEN picks = <<>>
    ELSE IF rows[i].level <= 0 THEN SameMeasurements(rows, i + 1, picks)
    ELSE /\ picks # <<>>
         /\ Head(picks).frame = rows[i].frame
         /\ Head(picks).X = rows[i].X
         /\ Head(picks).Y = rows[i].Y
         /\ Head(picks).level = rows[i].level
         /\ SameMeasurements(rows, i + 1, Tail(picks))

\* C21: every measurement that applyAstrometryFTPdetectinfo converts has a
\* level above 0, row i of the frame, X, Y and level columns is one and the
\* same measurement of the file, and the list to write has one entry per
\* meteor of the file, in the file's order.
OnlyPositiveLevelsConverted ==
    apply.pc = "write" =>
        /\ Len(apply.meteor_list) = Len(apply.meteor_data)
        /\ \A j \in 1 .. Len(apply.meteor_list) :
              /\ apply.meteor_list[j].ff_name = apply.meteor_data[j].ff_name
              /\ \A i \in 1 .. Len(apply.meteor_list[j].meteor_meas) :
                    apply.meteor_list[j].meteor_meas[i].level > 0
              /\ SameMeasurements(apply.meteor_data[j].meteor_meas, 1,
                                  apply.meteor_list[j].meteor_meas)

\* Two meteors of the detector's file were converted, the first with a
\* level of 0 between two positive ones, the second with one measurement
\* left of three.
OnlyPositiveLevelsConvertedWitness ==
    /\ apply.pc = "write"
    /\ apply.calls = 0
    /\ Len(apply.meteor_list) = 2
    /\ apply.meteor_data[1].ff_name = "FF_b"
    /\ Len(apply.meteor_list[1].meteor_meas) = 2
    /\ apply.meteor_data[2].ff_name = "FF_c"
    /\ Len(apply.meteor_list[2].meteor_meas) = 1

\* C22: over successive calls of applyAstrometryFTPdetectinfo on one file
\* the '_uncalibrated' copy appears in the first call as a copy of the file,
\* the file is rewritten only when the copy exists, and an existing copy is
\* never written again: it keeps the content from before the first call.
BackupStep ==
    /\ disk.copy.exists => disk'.copy = disk.copy
    /\ ~disk.copy.exists /\ disk'.copy.exists =>
          /\ apply.calls = 0
          /\ disk'.copy = disk.ftp
          /\ disk'.copy.calibration = 0
          /\ disk'.ftp = disk.ftp
    /\ disk'.ftp # disk.ftp => disk.copy.exists
    /\ apply'.calls > 0 => disk'.copy.exists /\ disk'.copy.calibration = 0

BackupKeepsFirstContent == [][BackupStep]_vars

\* After the last call the file holds the last calibration of two meteors
\* and the copy the detector's file.
BackupKeepsFirstContentWitness ==
    /\ apply.calls = MaxCalls
    /\ apply.pc = "idle"
    /\ disk.ftp.calibration = MaxCalls
    /\ disk.copy.exists
    /\ disk.copy.calibration = 0
    /\ Len(disk.copy.meteors) = 2
    /\ disk.copy.meteors # disk.ftp.meteors

\* The loop is left after one run.
OnceOnly == ~flux.auto_given \/ flux.time_given

RunsRepeatWitness ==
    /\ flux.auto_given
    /\ ~flux.time_given
    /\ flux.runs = MaxRuns

\* --auto H without --time.
AutoMode == flux.auto_given /\ ~flux.time_given

\* A step of the loop in auto mode: a run starts only at the top of the loop,
\* and after a run that took longer than H the loop is at its top again.
AutoStep ==
    AutoMode =>
        /\ flux'.pc = "run" /\ flux.pc # "run" => flux.pc = "top"
        /\ flux.pc = "run" /\ flux'.pc # "run" /\ flux.now > flux.auto =>
              flux'.pc = "top"

\* C24: in auto mode a run starts only when the run before it has returned
\* and H hours or more after that one started; after a run of more than H
\* hours the next starts without waiting; and a next run always starts.
AutoRunsSpaced ==
    /\ [](AutoMode /\ flux.pc = "run" /\ flux.previous_start_given =>
             0 - flux.previous_start_time >= flux.auto)
    /\ [][AutoStep]_vars
    /\ (AutoMode ~> (flux.pc = "run" /\ flux.now = 0))

\* A third run has started three ticks after the second, which the loop
\* waited for.
AutoRunsSpacedWitness ==
    /\ AutoMode
    /\ flux.auto = 3
    /\ flux.pc = "run"
    /\ flux.now = 0
    /\ flux.runs = 3
    /\ flux.previous_start_time = -3
    /\ flux.zone # 0

\* No entry is twice in the list.
NoDuplicate(list) ==
    \A i, j \in 1 .. Len(list) : list[i] = list[j] => i = j

\* C25: at any point of the walk of fluxAutoRun no list of shower_dirs and
\* no list of shower_dirs_ref_year has an entry twice, every entry of the
\* reference year is in shower_dirs under the same shower, and the keys of
\* both dictionaries are names of active showers.
ShowerDirsWellFormed ==
    /\ DOMAIN walk.shower_dirs \subseteq ActiveNames
    /\ DOMAIN walk.shower_dirs_ref_year \subseteq DOMAIN walk.shower_dirs
    /\ \A k \in DOMAIN walk.shower_dirs : NoDuplicate(walk.shower_dirs[k])
    /\ \A k \in DOMAIN walk.shower_dirs_ref_year :
          /\ NoDuplicate(walk.shower_dirs_ref_year[k])
          /\ \A i \in 1 .. Len(walk.shower_dirs_ref_year[k]) :
                \E j \in 1 .. Len(walk.shower_dirs[k]) :
                    walk.shower_dirs[k][j] = walk.shower_dirs_ref_year[k][i]

\* The walk has ended after a directory of the reference year was yielded
\* twice and one of the year before once.
ShowerDirsWellFormedWitness ==
    /\ walk.pc = "done"
    /\ Len(walk.inspected) = 3
    /\ walk.inspected[1] = walk.inspected[3]
    /\ walk.inspected[1] # walk.inspected[2]
    /\ "PER" \in DOMAIN walk.shower_dirs
    /\ Len(walk.shower_dirs["PER"]) = 2
    /\ Len(walk.shower_dirs_ref_year["PER"]) = 1

\* The directory of a path, and the shower of a name.
DirOf(dir_path) == CHOOSE dir \in Dirs : dir.dir_path = dir_path

ShowerOf(name) ==
    active_showers[CHOOSE i \in 1 .. Len(active_showers) : active_showers[i].name = name]

\* The longitude x is on the arc from lo to hi.
OnArc(lo, x, hi) == (x - lo) % 360 <= (hi - lo) % 360

\* The directory has what a directory of the shower must have, with the
\* time stamp dir_dt.
FitsShower(shower, dir, dir_dt) ==
    /\ Len(dir.dir_split) >= 3
    /\ strptime(dir.dir_split[2], dir.dir_split[3]) = Returned(dir_dt)
    /\ dir_dt.year >= 2018
    /\ OnArc(shower.lasun_beg - 1, SolLon(dir_dt), shower.lasun_end + 1)
    /\ platepar_name \in dir.files

\* C26: every entry of a list of shower_dirs is a directory whose name has
\* three parts or more, the second and third a time stamp of 2018 or later
\* with a solar longitude from lasun_beg - 1 to lasun_end + 1 of the shower,
\* and which holds the platepar; an entry of the reference year is within a
\* day of the shower's activity of that year; and the walk passes over the
\* other directories and comes to its end with every directory inspected
\* and the later ones taken.
OnlyFittingDirsTaken ==
    /\ walk.pc \in {"walk", "done"}
    /\ walk.pc = "done" => walk.todo = <<>>
    /\ \A k \in DOMAIN walk.shower_dirs :
          \A i \in 1 .. Len(walk.shower_dirs[k]) :
              FitsShower(ShowerOf(k), DirOf(walk.shower_dirs[k][i].dir_path),
                         walk.shower_dirs[k][i].dir_dt)
    /\ \A k \in DOMAIN walk.shower_dirs_ref_year :
          \A i \in 1 .. Len(walk.shower_dirs_ref_year[k]) :
              /\ Day(walk.shower_dirs_ref_year[k][i].dir_dt)
                    >= ShowerOf(k).dt_beg_ref_year - 1
              /\ Day(walk.shower_dirs_ref_year[k][i].dir_dt)
                    <= ShowerOf(k).dt_end_ref_year + 1
    /\ \A n \in 1 .. Len(walk.inspected) :
          walk.inspected[n].dir_path = "/data/CA0001_20200812_031500_123456" =>
              \E i \in 1 .. Len(walk.shower_dirs["PER"]) :
                  walk.shower_dirs["PER"][i].dir_path = walk.inspected[n].dir_path

\* The walk has ended: it passed over a directory without a time stamp and
\* one without the platepar, and took the third for the shower and the
\* reference year.
OnlyFittingDirsTakenWitness ==
    /\ walk.pc = "done"
    /\ Len(walk.inspected) = 3
    /\ walk.inspected[1].dir_path = "/data/CA0001_processed_plots_2020"
    /\ walk.inspected[2].dir_path = "/data/CA0002_20200812_031500_123456"
    /\ walk.inspected[3].dir_path = "/data/CA0001_20200812_031500_123456"
    /\ Len(walk.shower_dirs["PER"]) = 1
    /\ Len(walk.shower_dirs_ref_year["PER"]) = 1
    /\ walk.shower_dirs["EQX"] = <<>>

\* C27: when no file of the night directory has both 'CALSTARS' and '.txt'
\* in its name, generateCalibrationReport returns None and reads no star
\* list, whether the directory is empty or not.
ReportNeedsCalstars ==
    /\ fn.op = "generateCalibrationReport"
    /\ fn.stage = "ret"
    /\ \A i \in 1 .. Len(fn.listdir) : ~IsCalstars(fn.listdir[i])
    => /\ fn.ret.returned
       /\ fn.ret.calstars_file = NoObj

\* C28: Logger is a singleton: every construction returns one and the same
\* object, which is Logger._instance, and getLogger returns the root logger
\* before initLogging was called as well as after.
LoggerSingleton ==
    /\ logging.objects <= 1
    /\ \A i \in 1 .. Len(logging.returned) :
          /\ logging.returned[i] = logging.returned[1]
          /\ logging.returned[i] = logging._instance
    /\ \A i \in 1 .. Len(logging.got) : logging.got[i].logger = "root"

\* Three constructions, and getLogger before and after initLogging.
LoggerSingletonWitness ==
    /\ Len(logging.returned) = 3
    /\ Len(logging.got) = 2
    /\ ~logging.got[1]._initialized
    /\ logging.got[2]._initialized

\* The handlers of a class on the root logger.
HandlersOf(class) ==
    {i \in 1 .. Len(logging.handlers) : logging.handlers[i].class = class}

\* C29: after one call of initLogging or more the root logger has one
\* stream handler to stdout and one socket handler, and _initialized is
\* true.
InitLoggingIdempotent ==
    logging._initialized =>
        /\ Cardinality(HandlersOf("StreamHandler")) = 1
        /\ Cardinality(HandlersOf("SocketHandler")) = 1

\* The least of the magnitudes of the frames.
LeastMag(frames_data) ==
    CHOOSE mag \in {frames_data[i].mag : i \in 1 .. Len(frames_data)} :
        \A i \in 1 .. Len(frames_data) : mag <= frames_data[i].mag

\* C30: the R90 row of a meteor with one frame or more has the right
\* ascension and declination of the first frame as Ra1 and Dec1, those of
\* frame n_segments - 1 as Ra2 and Dec2, and the least magnitude of all
\* frames as Mag.
R90RowOfFirstAndLast ==
    fn.op = "R90" /\ fn.stage = "ret" =>
        /\ fn.ret.Ra1 = fn.frames_data[1].ra
        /\ fn.ret.Dec1 = fn.frames_data[1].dec
        /\ fn.ret.Ra2 = fn.frames_data[fn.n_segments].ra
        /\ fn.ret.Dec2 = fn.frames_data[fn.n_segments].dec
        /\ fn.ret.Mag = LeastMag(fn.frames_data)

=============================================================================
